---- MODULE Spec2Model ----
(***************************************************************************)
(* Model of dmatscheko/sslserver: the framed Command protocol between the  *)
(* supervisor (parent) and the jailed worker (child), the worker's remote  *)
(* cache proxy (DirCache), the supervisor's command loop, and the          *)
(* certificate resolution engine (getCertificate).                         *)
(*                                                                         *)
(* The specifications share the variables:                               *)
(*   SpecCodec  the outbound pumps' framing and the inbound decoders on    *)
(*              one byte stream, in either direction;                      *)
(*   Spec       the worker's DirCache callers, both pumps, both decoders,  *)
(*              the supervisor's command loop and its on-disk store;       *)
(*   LiveSpec   Spec with the worker's goroutines scheduled fairly;        *)
(*   SpecCert   getCertificate over the in-memory certificate cache;       *)
(*   SpecHandshakes  two handshake goroutines inside getCertificate at the *)
(*              same time, one step per access to the shared cache.        *)
(*   SpecServer runServer with its two listener goroutines, the worker's   *)
(*              decoder where it calls terminateServer, and the shutdown;  *)
(*   LiveSpecServer  SpecServer with the shutdown's goroutines scheduled;  *)
(*   SpecSupervisor  the supervisor's goroutines and a worker process that *)
(*              writes to its stdout and exits at any time;                *)
(*   LiveSpecSupervisor  SpecSupervisor with the trap, loop and pump       *)
(*              scheduled;                                                 *)
(*   SpecStream an inbound decoder on a closed stream of any content;      *)
(*   PumpLiveSpec  Spec with only the worker's outbound pump scheduled;    *)
(*   SpecConfig readConfig on any config.yml;                              *)
(*   SpecDomains  the two domain white lists made from the configuration;  *)
(*   SpecPump   an outbound pump with its idle timeout, the channel it     *)
(*              receives from and the peer's decoder;                      *)
(*   SpecIssue  SpecHandshakes together with Spec: handshakes that issue   *)
(*              self-signed certificates next to the remote cache proxy;   *)
(*   FairSpec   Spec with every goroutine of both processes scheduled.     *)
(***************************************************************************)
EXTENDS Integers, Sequences, FiniteSets, TLC

VARIABLES
  \* ---- one byte stream and its two ends (SpecCodec) ----
  dir,            \* "up": worker stdout -> supervisor; "down": supervisor -> worker stdin
  wire,           \* the bytes written and not yet read
  sent,           \* Commands handed to the outbound pump, in order
  rcvd,           \* Commands the inbound decoder produced, in order
  decoderState,   \* "running", or "fatal" after log.Fatal / a panic in the decoder
  \* ---- worker, supervisor and the two pipes (Spec) ----
  certCacheBytes, \* worker: certCacheBytes map, name -> bytes (<<>> is nil)
  pc,             \* worker: where each DirCache caller is
  call,           \* worker: the call each caller is in, or last made
  result,         \* worker: what each caller's last call returned
  childStdout,    \* bytes the worker wrote to its stdout, not yet read by the supervisor
  childStdin,     \* bytes the supervisor wrote to the worker's stdin, not yet read
  parentDecoded,  \* supervisor decoder: <<the Command it is sending on childToParentCh>>
  parentResponse, \* supervisor loop: <<the response it is sending on parentToChildCh>>
  childDecoded,   \* worker decoder: <<the Command it is sending on parentToChildCh>>
  store,          \* supervisor: autocert.DirCache on disk, name -> bytes (<<>> is no file)
  opsLeft,        \* DirCache calls the callers may still start
  getQueue,       \* history: callers of the Gets sent and not yet answered, in send order
  answer,         \* history: per caller, the payload the supervisor answered its Get with
  lastPut,        \* history: per name, the data of the one Put that came last, if known,
                  \* and whether a Delete came last and has returned
  \* ---- certificate resolution (SpecCert) ----
  certCache,      \* worker: certCache map, name -> certificate or NoCert
  now,            \* the clock, in seconds
  serial,         \* certificates made so far
  initIndex,      \* initCertificates: the next entry of config.SelfSignedDomains
  calls,          \* getCertificate calls made so far
  hello,          \* the server name of the last getCertificate call
  duration,       \* <<remaining lifetime>> the last call computed, or <<>>
  ret,            \* what the last getCertificate call returned
  effects,        \* what the last getCertificate call did
  \* ---- concurrent handshakes in getCertificate (SpecHandshakes) ----
  hs,             \* per handshake goroutine: where it is in getCertificate, its locals
  hret,           \* per handshake goroutine: how its last call ended
  mapWriters,     \* the goroutines inside an assignment to certCache
  fatal,          \* the Go runtime has thrown a fatal error: the worker is gone
  \* ---- the worker's servers: runServer and terminateServer (SpecServer) ----
  jailProcess,    \* config.JailProcess
  runServerPc,    \* where runServer's own goroutine is
  server,         \* httpServer / httpsServer: "nil", "created", or "shutdown" once Shutdown was called
  listener,       \* where each listener goroutine is
  wgBindDone,     \* sync.WaitGroup counter
  wgJailed,       \* sync.WaitGroup counter
  wgServerClosed, \* sync.WaitGroup counter
  jail,           \* Jail(): "no", "started", "done"
  conns,          \* per server: connections accepted and still in flight
  terminate,      \* the inbound decoder: "idle", or "shutdown" inside terminateServerList
  shut,           \* terminateServerList: where each Shutdown goroutine is
  wgShutdown,     \* sync.WaitGroup counter
  ctx,            \* the context of terminateServerList: "none", "running", "expired"
  worker,         \* the worker process: "running", "fatal ..." (which log.Fatal), "panic"
  delivered,      \* history: the Commands received from parentToChildCh, in order
  \* ---- the supervisor and the worker process it started (SpecSupervisor) ----
  cmd,            \* the worker process: "running", "exit 0", "exit 1"
  waitPc,         \* the goroutine of cmd.Wait(): "wait", "close", "done"
  supervisor,     \* the supervisor process: "running", or how it ended
  logged,         \* the records the command loop's default case gave to log.Println
  errorLog,       \* the records the command loop logged for errors of the store
  lines,          \* history: the lines the decoder read that are no command type
  pumpData,       \* worker pump: <<the payload it has still to write>> after its Flush
  writesLeft,     \* writes the worker may still do
  \* ---- configuration load (SpecConfig) ----
  config,         \* the config variable: the fields readConfig's checks touch
  configFile,     \* config.yml: missing, not YAML, or its entries
  configPc,       \* where readConfig is (SpecDomains: where initChild is)
  \* ---- the two domain white lists (SpecDomains) ----
  whiteList,      \* allowedDomainsSelfSignedWhiteList, the keys that are true
  hostPolicy,     \* the hosts of the manager's autocert.HostWhitelist
  \* ---- an outbound pump and its channel (SpecPump) ----
  pending,        \* the Command a sender offers on the pump's channel, if any
  pumpLog         \* the records the pump gave to log.Println

codecVars == <<dir, wire, sent, rcvd, decoderState>>
proxyVars == <<certCacheBytes, pc, call, result, childStdout, childStdin,
               parentDecoded, parentResponse, childDecoded, store, opsLeft,
               getQueue, answer, lastPut>>
certVars == <<certCache, now, serial, initIndex, calls, hello, duration, ret, effects>>
handshakeVars == <<hs, hret, mapWriters, fatal>>
serverVars == <<jailProcess, runServerPc, server, listener, wgBindDone, wgJailed,
                wgServerClosed, jail, conns, terminate, shut, wgShutdown, ctx,
                worker, delivered>>
superVars == <<cmd, waitPc, supervisor, logged, errorLog, lines, pumpData, writesLeft>>
configVars == <<config, configFile, configPc>>
domainVars == <<whiteList, hostPolicy>>
pumpVars == <<pending, pumpLog>>
moreVars == <<configVars, domainVars, pumpVars>>
laterVars == <<serverVars, superVars, moreVars>>
restVars == <<handshakeVars, laterVars>>
vars == <<codecVars, proxyVars, certVars, restVars>>

Nil == "nil"

(***************************************************************************)
(* Bytes and strings are sequences of one-character strings.               *)
(***************************************************************************)

\* Command types (main.go).
cmdGet == <<"[", "g", "e", "t", "]">>
cmdPut == <<"[", "p", "u", "t", "]">>
cmdDelete == <<"[", "d", "e", "l", "e", "t", "e", "]">>
cmdTerminate == <<"[", "t", "e", "r", "m", "i", "n", "a", "t", "e", "]">>

CommandTypes == {cmdGet, cmdPut, cmdDelete, cmdTerminate}

NL == "\n"

DigitChars == <<"0", "1", "2", "3", "4", "5", "6", "7", "8", "9">>

RECURSIVE Itoa(_)
\* Itoa with the digits least significant first.
ItoaReversed(n) ==
  IF n < 10 THEN <<DigitChars[n + 1]>>
  ELSE <<DigitChars[(n % 10) + 1]>> \o Itoa(n \div 10)

\* strconv.Itoa for n >= 0.
Itoa(n) ==
  IF n < 10 THEN <<DigitChars[n + 1]>>
  ELSE Itoa(n \div 10) \o <<DigitChars[(n % 10) + 1]>>

DigitValue(c) == (CHOOSE i \in 1..10 : DigitChars[i] = c) - 1

IsDigit(c) == \E i \in 1..10 : DigitChars[i] = c

RECURSIVE DigitsValue(_)
DigitsValue(s) ==
  IF s = <<>> THEN 0
  ELSE 10 * DigitsValue(SubSeq(s, 1, Len(s) - 1)) + DigitValue(s[Len(s)])

\* A conversion that takes what is no number for 0.
AtoiZeroOnError(s) ==
  IF s # <<>> /\ \A i \in 1..Len(s) : IsDigit(s[i])
  THEN [ok |-> TRUE, val |-> DigitsValue(s)]
  ELSE [ok |-> TRUE, val |-> 0]

\* strconv.Atoi: an optional sign and at least one digit, nothing else.
Atoi(s) ==
  LET signed == s # <<>> /\ s[1] \in {"+", "-"}
      digits == IF signed THEN Tail(s) ELSE s
  IN  IF digits = <<>> \/ \E i \in 1..Len(digits) : ~IsDigit(digits[i])
      THEN [ok |-> FALSE, val |-> 0]
      ELSE [ok |-> TRUE,
            val |-> IF signed /\ s[1] = "-" THEN 0 - DigitsValue(digits)
                    ELSE DigitsValue(digits)]

IsSpace(c) == c \in {" ", "\t", "\n", "\r"}

\* strings.TrimSpace.
RECURSIVE TrimLeft(_)
TrimLeft(s) == IF s # <<>> /\ IsSpace(s[1]) THEN TrimLeft(Tail(s)) ELSE s

RECURSIVE TrimRight(_)
TrimRight(s) ==
  IF s # <<>> /\ IsSpace(s[Len(s)]) THEN TrimRight(SubSeq(s, 1, Len(s) - 1)) ELSE s

TrimSpace(s) == TrimRight(TrimLeft(s))

\* bufio.Reader.ReadString('\n'): the index of the delimiter, 0 while no
\* complete line has been written.
ReadString(s) ==
  LET ends == {i \in 1..Len(s) : s[i] = NL}
  IN  IF ends = {} THEN 0 ELSE CHOOSE i \in ends : \A j \in ends : i <= j

Drop(s, n) == SubSeq(s, n + 1, Len(s))

\* A payload read that stops at the first newline instead of after n bytes.
ReadFullAsLine(s, n) ==
  SubSeq(s, 1, IF ReadString(s) = 0 \/ ReadString(s) > n THEN n ELSE ReadString(s))

\* io.ReadFull(reader, data) with len(data) = n <= Len(s): the next n bytes,
\* whatever they are.
ReadFull(s, n) == SubSeq(s, 1, n)

Command(type, name, data) == [Type |-> type, Name |-> name, Data |-> data]

\* The outbound pumps' writes for one Command: three lines through the
\* bufio.Writer, a Flush, then the payload written to the pipe itself.
Frame(command) ==
  command.Type \o <<NL>> \o command.Name \o <<NL>>
    \o Itoa(Len(command.Data)) \o <<NL>> \o command.Data

\* One pass of an inbound decoder's loop over the bytes s:
\*   "command"  a Command was built, rest follows it;
\*   "line"     the first line is no command type (rest follows the line);
\*   "blocked"  the reader waits for more bytes (a read error once the pipe
\*              is closed);
\*   "fatal"    log.Fatal on strconv.Atoi's error, or make's panic on a
\*              negative length.
\*
\* Each value read is bound once, Only({f(x) : x \in {e}}), before it is used.
Only(S) == CHOOSE x \in S : TRUE

ReadFrame(s) ==
  LET none == Command(<<>>, <<>>, <<>>)
      blocked == [st |-> "blocked", command |-> none, rest |-> s]
      Payload(commandType, fileName, dataLength, s3) ==
        IF ~dataLength.ok \/ dataLength.val < 0
        THEN [st |-> "fatal", command |-> none, rest |-> s]
        ELSE IF Len(s3) < dataLength.val THEN blocked
        ELSE Only({[st |-> "command",
                    command |-> Command(commandType, fileName, data),
                    rest |-> Drop(s3, Len(data))] :
                   data \in {ReadFull(s3, dataLength.val)}})
      Length(commandType, fileName, s2, e3) ==
        IF e3 = 0 THEN blocked
        ELSE Only({Payload(commandType, fileName, dataLength, Drop(s2, e3)) :
                   dataLength \in {Atoi(TrimSpace(SubSeq(s2, 1, e3)))}})
      Name(commandType, s1, e2) ==
        IF e2 = 0 THEN blocked
        ELSE Only({Length(commandType, TrimSpace(SubSeq(s1, 1, e2)), s2, ReadString(s2)) :
                   s2 \in {Drop(s1, e2)}})
      Type(commandType, s1) ==
        IF commandType \notin CommandTypes
        THEN [st |-> "line", command |-> Command(commandType, <<>>, <<>>), rest |-> s1]
        ELSE Only({Name(commandType, s1, e2) : e2 \in {ReadString(s1)}})
      Line(e1) ==
        IF e1 = 0 THEN blocked
        ELSE Only({Type(commandType, Drop(s, e1)) :
                   commandType \in {TrimSpace(SubSeq(s, 1, e1))}})
  IN  Only({Line(e1) : e1 \in {ReadString(s)}})

(***************************************************************************)
(* SpecCodec: one outbound pump writes Commands to a pipe and the peer's   *)
(* inbound decoder reads them back.                                        *)
(***************************************************************************)

\* Frames written to one stream.
MaxFrames == 2

\* A payload that reads like the start of a frame, and one whose length has
\* two digits.
TokenPayload == cmdGet \o <<NL, "0", NL>>
LongPayload == cmdPut \o cmdGet

\* Names the autocert Manager may pass to DirCache: any string.
CacheKeys == {<<>>, <<"a">>, <<" ", "a">>, <<"a", NL, "1">>}

\* The names of the supervisor's responses: each is the Name of a Command its
\* decoder built (Command{Type: cmdGet, Name: command.Name, ...}).
ResponseNames ==
  {ReadFrame(Frame(Command(cmdGet, name, <<>>))).command.Name : name \in CacheKeys}

UpCommands ==
  {Command(t, name, data) :
     t \in CommandTypes, name \in CacheKeys, data \in {<<>>, LongPayload}}

DownCommands ==
  {Command(t, name, data) :
     t \in CommandTypes, name \in ResponseNames,
     data \in {<<>>, <<NL>>, TokenPayload, LongPayload}}

ProxyParked ==
  /\ certCacheBytes = <<>> /\ pc = <<>> /\ call = <<>> /\ result = <<>>
  /\ childStdout = <<>> /\ childStdin = <<>>
  /\ parentDecoded = <<>> /\ parentResponse = <<>> /\ childDecoded = <<>>
  /\ store = <<>> /\ opsLeft = 0
  /\ getQueue = <<>> /\ answer = <<>> /\ lastPut = <<>>

CertParked ==
  /\ certCache = <<>> /\ now = 0 /\ serial = 0 /\ initIndex = 0 /\ calls = 0
  /\ hello = Nil /\ duration = <<>> /\ ret = <<>> /\ effects = {}

CodecParked ==
  /\ dir = Nil /\ wire = <<>> /\ sent = <<>> /\ rcvd = <<>>
  /\ decoderState = Nil

HandshakesParked ==
  /\ hs = <<>> /\ hret = <<>> /\ mapWriters = {} /\ fatal = FALSE

ServerParked ==
  /\ jailProcess = FALSE /\ runServerPc = Nil /\ server = <<>> /\ listener = <<>>
  /\ wgBindDone = 0 /\ wgJailed = 0 /\ wgServerClosed = 0 /\ jail = Nil
  /\ conns = <<>> /\ terminate = Nil /\ shut = <<>> /\ wgShutdown = 0
  /\ ctx = Nil /\ worker = Nil /\ delivered = <<>>

SupervisorParked ==
  /\ cmd = Nil /\ waitPc = Nil /\ supervisor = Nil /\ logged = <<>>
  /\ errorLog = <<>> /\ lines = <<>> /\ pumpData = <<>> /\ writesLeft = 0

ConfigParked == config = <<>> /\ configFile = <<>> /\ configPc = Nil

DomainsParked == whiteList = {} /\ hostPolicy = {}

PumpParked == pending = <<>> /\ pumpLog = <<>>

MoreParked == ConfigParked /\ DomainsParked /\ PumpParked

LaterParked == ServerParked /\ SupervisorParked /\ MoreParked

RestParked == HandshakesParked /\ LaterParked

InitCodec ==
  /\ dir \in {"up", "down"}
  /\ wire = <<>> /\ sent = <<>> /\ rcvd = <<>>
  /\ decoderState = "running"
  /\ ProxyParked /\ CertParked /\ RestParked

\* initChild's second goroutine: one Command received from childToParentCh
\* is written to the worker's stdout.
CodecPumpChild ==
  /\ dir = "up" /\ Len(sent) < MaxFrames
  /\ \E command \in UpCommands :
       /\ wire' = wire \o Frame(command)
       /\ sent' = Append(sent, command)
  /\ UNCHANGED <<dir, rcvd, decoderState, proxyVars, certVars, restVars>>

\* initParent's second goroutine: one Command received from parentToChildCh
\* is written to the worker's stdin.
CodecPumpParent ==
  /\ dir = "down" /\ Len(sent) < MaxFrames
  /\ \E command \in DownCommands :
       /\ wire' = wire \o Frame(command)
       /\ sent' = Append(sent, command)
  /\ UNCHANGED <<dir, rcvd, decoderState, proxyVars, certVars, restVars>>

\* initParent's first goroutine, one pass of its loop: a line that is no
\* command type goes to the command loop as Command{Type: line}.
CodecDecodeParent ==
  /\ dir = "up" /\ decoderState = "running"
  /\ LET f == ReadFrame(wire)
     IN  /\ f.st # "blocked"
         /\ decoderState' = IF f.st = "fatal" THEN "fatal" ELSE "running"
         /\ wire' = f.rest
         /\ rcvd' = IF f.st = "fatal" THEN rcvd ELSE Append(rcvd, f.command)
  /\ UNCHANGED <<dir, sent, proxyVars, certVars, restVars>>

\* initChild's first goroutine, one pass of its loop: a line that is no
\* command type is ignored; [terminate] is handled by terminateServer, the
\* other Commands are sent on parentToChildCh.
CodecDecodeChild ==
  /\ dir = "down" /\ decoderState = "running"
  /\ LET f == ReadFrame(wire)
     IN  /\ f.st # "blocked"
         /\ decoderState' = IF f.st = "fatal" THEN "fatal" ELSE "running"
         /\ wire' = f.rest
         /\ rcvd' = IF f.st = "command" THEN Append(rcvd, f.command) ELSE rcvd
  /\ UNCHANGED <<dir, sent, proxyVars, certVars, restVars>>

NextCodec ==
  \/ CodecPumpChild
  \/ CodecPumpParent
  \/ CodecDecodeParent
  \/ CodecDecodeChild

SpecCodec == InitCodec /\ [][NextCodec]_vars

\* A name that is one line of text with no white space around it.
LineSafe(name) ==
  /\ TrimSpace(name) = name
  /\ \A i \in 1..Len(name) : name[i] # NL

RECURSIVE Frames(_)
Frames(commands) ==
  IF commands = <<>> THEN <<>>
  ELSE Frame(Head(commands)) \o Frames(Tail(commands))

\* C1 as stated: every Command of one of the four types, whatever its name
\* and payload, written by the worker's pump and read back by the
\* supervisor's decoder, comes back with the same Type, Name and Data.
C1_RoundTripAnyName ==
  (dir = "up" /\ Len(rcvd) >= 1) => rcvd[1] = sent[1]

\* C1, amended: a Command of one of the four types whose name is a single
\* line of text without leading or trailing white space, with any payload,
\* written by the worker's pump and read back by the supervisor's decoder
\* comes back with the same Type, Name and Data; a zero-length payload comes
\* back as the empty byte sequence.
C1_RoundTrip ==
  dir = "up" =>
    /\ \A i \in 1..Len(rcvd) :
         (\A j \in 1..i : LineSafe(sent[j].Name)) =>
           /\ i <= Len(sent)
           /\ rcvd[i] = sent[i]
           /\ (Len(sent[i].Data) = 0 => rcvd[i].Data = <<>>)
    /\ (\A j \in 1..Len(sent) : LineSafe(sent[j].Name)) =>
         /\ Len(rcvd) <= Len(sent)
         /\ wire = Frames(SubSeq(sent, Len(rcvd) + 1, Len(sent)))
         /\ decoderState = "running"

C1_Witness ==
  /\ dir = "up" /\ Len(rcvd) = 2 /\ rcvd = sent
  /\ rcvd[1].Data = <<>> /\ Len(rcvd[2].Data) >= 10
  /\ rcvd[1].Name = <<>> /\ rcvd[2].Name = <<"a">>

\* C2: the Commands the worker's decoder builds are exactly the Commands the
\* supervisor's pump was handed, in order, none lost, duplicated, split or
\* merged, whatever bytes the payloads hold: the unread bytes are always the
\* frames of the Commands not yet built, and the decoder never fails.
C2_InOrder ==
  dir = "down" =>
    /\ Len(rcvd) <= Len(sent)
    /\ rcvd = SubSeq(sent, 1, Len(rcvd))
    /\ wire = Frames(SubSeq(sent, Len(rcvd) + 1, Len(sent)))
    /\ decoderState = "running"

C2_Witness ==
  /\ dir = "down" /\ Len(rcvd) = 2 /\ rcvd = sent /\ wire = <<>>
  /\ rcvd[1].Data = TokenPayload /\ rcvd[2].Data = <<NL>>

(***************************************************************************)
(* Spec: the worker's DirCache callers, the worker's pump and decoder, the *)
(* supervisor's decoder, command loop and pump, and the two pipes.         *)
(***************************************************************************)

\* DirCache calls the callers start in one behaviour.
MaxOps == 3

\* The goroutines that call DirCache (autocert runs one per handshake).
Callers == {"h1", "h2"}

\* Cache keys and certificate data.
Names == {<<"a">>, <<"b">>}
OldData == <<"x">>
Payloads == {OldData, <<NL, "y">>}

NoCall == [op |-> "none", name |-> <<>>, data |-> <<>>, known |-> FALSE, expect |-> <<>>,
           deleted |-> FALSE]
NoResult == [data |-> <<>>, err |-> "none"]
ErrCacheMiss == "autocert.ErrCacheMiss"

\* History: per name, [known |-> FALSE, data |-> d] while the one Put under
\* way carries d, known once it has returned, deleted "started" while the
\* one Delete under way runs and "returned" after it, and Unknown when
\* nothing was Put or Deleted, or Puts and Deletes at the same time leave open
\* what the name holds.
Unknown == [known |-> FALSE, data |-> <<>>, deleted |-> "no"]

\* The state after initParent and initChild started their goroutines: the
\* store holds what earlier runs left on disk.
Init ==
  /\ certCacheBytes = [n \in Names |-> <<>>]
  /\ pc = [c \in Callers |-> "idle"]
  /\ call = [c \in Callers |-> NoCall]
  /\ result = [c \in Callers |-> NoResult]
  /\ childStdout = <<>> /\ childStdin = <<>>
  /\ parentDecoded = <<>> /\ parentResponse = <<>> /\ childDecoded = <<>>
  /\ store \in [Names -> {<<>>, OldData}]
  /\ opsLeft = MaxOps
  /\ getQueue = <<>>
  /\ answer = [c \in Callers |-> Unknown]
  /\ lastPut = [n \in Names |-> Unknown]
  /\ CodecParked /\ CertParked /\ RestParked

\* History: a Put or Delete of this name has started and not yet returned.
Mutating(name) ==
  \E c \in Callers :
    pc[c] = "send" /\ call[c].op \in {"Put", "Delete"} /\ call[c].name = name

\* History: a Put or Delete of this name makes the outcome of the Gets of the
\* name that are under way open; a Get that is sent already is still answered
\* from what the Delete before it left.
Overtaken(name) ==
  [c \in Callers |->
     IF call[c].op = "Get" /\ call[c].name = name /\ pc[c] # "idle"
     THEN [call[c] EXCEPT !.known = FALSE, !.deleted = (pc[c] = "wait" /\ @)]
     ELSE call[c]]

\* A Put that refuses nothing.
NoDataNever(data) == FALSE

\* DirCache.Put: len(data) == 0.
NoData(data) == Len(data) = 0

\* A caller that waits for a reply whatever it sent.
ReturnsAfterSendNever(op) == FALSE

\* After its send on childToParentCh Put and Delete return nil; Get goes on
\* to range over parentToChildCh.
ReturnsAfterSend(op) == op \in {"Put", "Delete"}

\* A Get that takes the reply for any name.
IsReplyForAnyName(response, name) == response.Type = cmdGet

\* DirCache.Get: the switch on response.Type and the test of response.Name.
IsReplyFor(response, name) == response.Type = cmdGet /\ response.Name = name

\* DirCache.Get up to its send: a local hit returns at once.
GetStart(c) ==
  /\ pc[c] = "idle" /\ opsLeft > 0
  /\ \E name \in Names :
       LET cert == certCacheBytes[name]
           this == [op |-> "Get", name |-> name, data |-> <<>>,
                    known |-> lastPut[name].known, expect |-> lastPut[name].data,
                    deleted |-> lastPut[name].deleted = "returned"]
       IN  /\ call' = [call EXCEPT ![c] = this]
           /\ IF cert # <<>>
              THEN /\ result' = [result EXCEPT ![c] = [data |-> cert, err |-> "nil"]]
                   /\ pc' = pc
              ELSE /\ result' = [result EXCEPT ![c] = NoResult]
                   /\ pc' = [pc EXCEPT ![c] = "send"]
  /\ answer' = [answer EXCEPT ![c] = Unknown]
  /\ opsLeft' = opsLeft - 1
  /\ UNCHANGED <<certCacheBytes, childStdout, childStdin, parentDecoded, parentResponse,
                 childDecoded, store, getQueue, lastPut, codecVars, certVars, restVars>>

\* DirCache.Put up to its send: empty data is refused.
PutStart(c) ==
  /\ pc[c] = "idle" /\ opsLeft > 0
  /\ \E name \in Names, data \in Payloads \cup {<<>>} :
       LET this == [op |-> "Put", name |-> name, data |-> data,
                    known |-> FALSE, expect |-> <<>>, deleted |-> FALSE]
       IN  IF NoData(data)
           THEN /\ call' = [call EXCEPT ![c] = this]
                /\ result' = [result EXCEPT ![c] = [data |-> <<>>, err |-> "no data"]]
                /\ UNCHANGED <<certCacheBytes, pc, lastPut>>
           ELSE /\ call' = [Overtaken(name) EXCEPT ![c] = this]
                /\ result' = [result EXCEPT ![c] = NoResult]
                /\ certCacheBytes' = [certCacheBytes EXCEPT ![name] = data]
                /\ pc' = [pc EXCEPT ![c] = "send"]
                /\ lastPut' = [lastPut EXCEPT ![name] =
                                 IF Mutating(name) THEN Unknown
                                 ELSE [known |-> FALSE, data |-> data, deleted |-> "no"]]
  /\ opsLeft' = opsLeft - 1
  /\ UNCHANGED <<childStdout, childStdin, parentDecoded, parentResponse,
                 childDecoded, store, getQueue, answer, codecVars, certVars, restVars>>

\* DirCache.Delete up to its send.
DeleteStart(c) ==
  /\ pc[c] = "idle" /\ opsLeft > 0
  /\ \E name \in Names :
       /\ call' = [Overtaken(name) EXCEPT ![c] =
                     [op |-> "Delete", name |-> name, data |-> <<>>,
                      known |-> FALSE, expect |-> <<>>, deleted |-> FALSE]]
       /\ certCacheBytes' = [certCacheBytes EXCEPT ![name] = <<>>]
       /\ lastPut' = [lastPut EXCEPT ![name] =
                        IF Mutating(name) THEN Unknown
                        ELSE [Unknown EXCEPT !.deleted = "started"]]
  /\ result' = [result EXCEPT ![c] = NoResult]
  /\ pc' = [pc EXCEPT ![c] = "send"]
  /\ opsLeft' = opsLeft - 1
  /\ UNCHANGED <<childStdout, childStdin, parentDecoded, parentResponse,
                 childDecoded, store, getQueue, answer, codecVars, certVars, restVars>>

CommandType(op) ==
  CASE op = "Get" -> cmdGet
    [] op = "Put" -> cmdPut
    [] op = "Delete" -> cmdDelete

\* The worker's outbound pump receives a caller's Command from
\* childToParentCh and writes its frame to stdout; Put and Delete return.
ChildPump ==
  \E c \in Callers :
    /\ pc[c] = "send"
    /\ childStdout' = childStdout
         \o Frame(Command(CommandType(call[c].op), call[c].name, call[c].data))
    /\ IF ReturnsAfterSend(call[c].op)
       THEN /\ pc' = [pc EXCEPT ![c] = "idle"]
            /\ result' = [result EXCEPT ![c] = [data |-> <<>>, err |-> "nil"]]
       ELSE /\ pc' = [pc EXCEPT ![c] = "wait"]
            /\ result' = result
    /\ getQueue' = IF call[c].op = "Get" THEN Append(getQueue, c) ELSE getQueue
    /\ lastPut' =
         IF call[c].op = "Put" /\ lastPut[call[c].name].data # <<>>
         THEN [lastPut EXCEPT ![call[c].name].known = TRUE]
         ELSE IF call[c].op = "Delete" /\ lastPut[call[c].name].deleted = "started"
         THEN [lastPut EXCEPT ![call[c].name].deleted = "returned"]
         ELSE lastPut
    /\ UNCHANGED <<certCacheBytes, call, childStdin, parentDecoded, parentResponse,
                   childDecoded, store, opsLeft, answer, codecVars, certVars, restVars>>

\* The supervisor's inbound decoder reads one frame, or one other line, from
\* the worker's stdout and offers it on childToParentCh.
ParentDecode ==
  /\ parentDecoded = <<>>
  /\ \E f \in {ReadFrame(childStdout)} :
       /\ f.st \in {"command", "line"}
       /\ parentDecoded' = <<f.command>>
       /\ childStdout' = f.rest
  /\ UNCHANGED <<certCacheBytes, pc, call, result, childStdin, parentResponse,
                 childDecoded, store, opsLeft, getQueue, answer, lastPut,
                 codecVars, certVars, restVars>>

\* The supervisor's command loop takes one Command: a Get is answered from
\* the store, a Put or Delete is applied to it unless the store fails.
ParentLoop ==
  /\ parentDecoded # <<>>
  /\ LET command == parentDecoded[1]
     IN  CASE command.Type = cmdGet ->
                /\ parentResponse = <<>>
                /\ parentResponse' =
                     <<Command(cmdGet, command.Name,
                               IF command.Name \in DOMAIN store
                               THEN store[command.Name] ELSE <<>>)>>
                /\ answer' = [answer EXCEPT ![Head(getQueue)] =
                                [known |-> TRUE, data |-> parentResponse'[1].Data, deleted |-> "no"]]
                /\ getQueue' = Tail(getQueue)
                /\ store' = store
           [] command.Type = cmdPut ->
                /\ \E ok \in BOOLEAN :
                     store' = IF ok THEN [store EXCEPT ![command.Name] = command.Data]
                                    ELSE store
                /\ UNCHANGED <<parentResponse, answer, getQueue>>
           [] command.Type = cmdDelete ->
                /\ \E ok \in BOOLEAN :
                     store' = IF ok THEN [store EXCEPT ![command.Name] = <<>>]
                                    ELSE store
                /\ UNCHANGED <<parentResponse, answer, getQueue>>
           [] OTHER ->
                UNCHANGED <<parentResponse, answer, getQueue, store>>
  /\ parentDecoded' = <<>>
  /\ UNCHANGED <<certCacheBytes, pc, call, result, childStdout, childStdin,
                 childDecoded, opsLeft, lastPut, codecVars, certVars, restVars>>

\* The supervisor's outbound pump receives the response from parentToChildCh
\* and writes its frame to the worker's stdin.
ParentPump ==
  /\ parentResponse # <<>>
  /\ childStdin' = childStdin \o Frame(parentResponse[1])
  /\ parentResponse' = <<>>
  /\ UNCHANGED <<certCacheBytes, pc, call, result, childStdout, parentDecoded,
                 childDecoded, store, opsLeft, getQueue, answer, lastPut,
                 codecVars, certVars, restVars>>

\* The worker's inbound decoder reads one frame from stdin and offers it on
\* parentToChildCh; another line is skipped.
ChildDecode ==
  /\ childDecoded = <<>>
  /\ \E f \in {ReadFrame(childStdin)} :
       /\ f.st \in {"command", "line"}
       /\ childDecoded' = IF f.st = "command" /\ f.command.Type # cmdTerminate
                          THEN <<f.command>> ELSE <<>>
       /\ childStdin' = f.rest
  /\ UNCHANGED <<certCacheBytes, pc, call, result, childStdout, parentDecoded,
                 parentResponse, store, opsLeft, getQueue, answer, lastPut,
                 codecVars, certVars, restVars>>

\* DirCache.Get receives a response from parentToChildCh: one for another
\* name is dropped and Get waits on, an empty one is a miss, anything else
\* is stored in certCacheBytes and returned.
GetRecv ==
  \E c \in Callers :
    /\ pc[c] = "wait"
    /\ childDecoded # <<>>
    /\ LET response == childDecoded[1]
       IN  IF ~IsReplyFor(response, call[c].name)
           THEN UNCHANGED <<pc, result, certCacheBytes>>
           ELSE IF response.Data = <<>>
           THEN /\ pc' = [pc EXCEPT ![c] = "idle"]
                /\ result' = [result EXCEPT ![c] = [data |-> <<>>, err |-> ErrCacheMiss]]
                /\ certCacheBytes' = certCacheBytes
           ELSE /\ pc' = [pc EXCEPT ![c] = "idle"]
                /\ result' = [result EXCEPT ![c] = [data |-> response.Data, err |-> "nil"]]
                /\ certCacheBytes' = [certCacheBytes EXCEPT ![call[c].name] = response.Data]
    /\ childDecoded' = <<>>
    /\ UNCHANGED <<call, childStdout, childStdin, parentDecoded, parentResponse,
                   store, opsLeft, getQueue, answer, lastPut, codecVars, certVars, restVars>>

Next ==
  \/ \E c \in Callers : GetStart(c)
  \/ \E c \in Callers : PutStart(c)
  \/ \E c \in Callers : DeleteStart(c)
  \/ ChildPump
  \/ ParentDecode
  \/ ParentLoop
  \/ ParentPump
  \/ ChildDecode
  \/ GetRecv

Spec == Init /\ [][Next]_vars

\* Go schedules every goroutine that can run: the worker's pump, decoder
\* and waiting Gets.
WorkerFairness ==
  /\ WF_vars(ChildPump)
  /\ WF_vars(ChildDecode)
  /\ WF_vars(GetRecv)

\* The worker runs; the supervisor may stall at any point.
LiveSpec == Init /\ [][Next]_vars /\ WorkerFairness

(***************************************************************************)
(* Claims about the remote cache proxy.                                    *)
(***************************************************************************)

\* C3: every Get that waits for its reply returns, also when the supervisor
\* has stalled and no reply for its name ever arrives.
C3_GetReturns ==
  \A c \in Callers : (pc[c] = "wait") ~> (pc[c] = "idle")

\* C4: a Get that the supervisor answered with an empty payload, because its
\* store had no entry for the name, returns the cache miss error and no data.
C4_MissReturned ==
  \A c \in Callers :
    (pc[c] = "idle" /\ call[c].op = "Get" /\ answer[c].known /\ answer[c].data = <<>>)
      => result[c] = [data |-> <<>>, err |-> ErrCacheMiss]

\* C5: a Get that was started after a Put of its name, with no other Put or
\* Delete of the name since, returns without error exactly the data of that Put.
C5_PutThenGet ==
  \A c \in Callers :
    (pc[c] = "idle" /\ call[c].op = "Get" /\ call[c].known)
      => result[c] = [data |-> call[c].expect, err |-> "nil"]

\* C24: a Put with empty data returns an error, sends no Command on
\* childToParentCh and writes nothing to stdout, and leaves certCacheBytes and
\* the supervisor's store as they were.
C24_EmptyPutRefused ==
  [][\A c \in Callers :
       (PutStart(c) /\ call'[c].data = <<>>)
         => /\ result'[c].err \notin {"nil", "none"}
            /\ pc'[c] = "idle"
            /\ childStdout' = childStdout
            /\ certCacheBytes' = certCacheBytes
            /\ store' = store]_vars

C24_Witness ==
  \E c \in Callers :
    /\ call[c].op = "Put" /\ call[c].data = <<>> /\ pc[c] = "idle"
    /\ result[c].err = "no data"
    /\ certCacheBytes[call[c].name] # <<>> /\ store[call[c].name] # <<>>

\* The worker's pump runs; the worker's decoder and the whole supervisor
\* may stall at any point.
PumpLiveSpec == Init /\ [][Next]_vars /\ WF_vars(ChildPump)

C27_OnlyMatchingReply ==
  [][\A c \in Callers :
       (pc[c] = "wait" /\ call[c].op = "Get") =>
         IF pc'[c] = "idle"
         THEN /\ childDecoded # <<>> /\ childDecoded[1].Type = cmdGet
              /\ childDecoded[1].Name = call[c].name
              /\ result'[c].data = childDecoded[1].Data
              /\ result'[c].err = IF childDecoded[1].Data = <<>>
                                   THEN ErrCacheMiss ELSE "nil"
         ELSE pc'[c] = "wait" /\ result'[c] = result[c] /\ call'[c] = call[c]]_vars

\* Two Gets of different names wait, the supervisor has answered one of them
\* and the reply is gone from the pipe: the other Get has dropped it.
C27_Witness ==
  /\ \A c \in Callers : pc[c] = "wait" /\ call[c].op = "Get"
  /\ call["h1"].name # call["h2"].name
  /\ \E c \in Callers : answer[c].known /\ answer[c].data # <<>>
  /\ parentResponse = <<>> /\ childStdin = <<>> /\ childDecoded = <<>>
  /\ getQueue # <<>>

\* C28: at any time at most one Get has been sent and not yet returned.
C28_OneGetOutstanding ==
  Cardinality({c \in Callers : call[c].op = "Get" /\ pc[c] = "wait"}) <= 1

(***************************************************************************)
(* SpecCert: initCertificates and getCertificate over the worker's         *)
(* in-memory certificate cache.  Time is counted in seconds.               *)
(***************************************************************************)

\* config.CertificateExpiryRefreshThreshold and the 14 days getTLSCert adds
\* to it, scaled down.
RefreshThreshold == 2
FourteenDays == 3

\* The clock stops here, and so many getCertificate calls are made.
MaxTime == 6
MaxCalls == 3

\* Server names a ClientHello may carry.
ServerNames == {"", "le.test", "Self.test", "self.test", "other.test", "bad name"}

\* A conversion that maps to lower case and rejects nothing.
ToASCIIUnchecked(name) ==
  [ok |-> TRUE, name |-> IF name = "Self.test" THEN "self.test" ELSE name]

\* idna.Lookup.ToASCII: maps to lower case, rejects what no host name holds.
ToASCII(name) ==
  CASE name = "Self.test" -> [ok |-> TRUE, name |-> "self.test"]
    [] name = "bad name" -> [ok |-> FALSE, name |-> ""]
    [] OTHER -> [ok |-> TRUE, name |-> name]

\* config.LetsEncryptDomains and config.SelfSignedDomains as configured.
LetsEncryptDomains == <<"le.test">>
SelfSignedDomains == <<"Self.test">>

\* initCertificates: config.SelfSignedDomains after the append.
AllSelfSignedDomains == SelfSignedDomains \o LetsEncryptDomains

Range(f) == {f[i] : i \in DOMAIN f}

\* The loop of initCertificates over config.SelfSignedDomains, and the same
\* loop of autocert.HostWhitelist over its hosts: the names that convert.
WhiteListOf(hosts) ==
  {ToASCII(h).name : h \in {d \in Range(hosts) : ToASCII(d).ok}}

\* initCertificates: the white list of domains for self signed certificates.
allowedDomainsSelfSignedWhiteList == WhiteListOf(AllSelfSignedDomains)

\* autocert.HostWhitelist(config.LetsEncryptDomains...).
HostPolicy == WhiteListOf(LetsEncryptDomains)

\* The keys certCache is read or written under.
CertNames ==
  {ToASCII(n).name : n \in {x \in ServerNames : x # "" /\ ToASCII(x).ok}}
    \cup Range(AllSelfSignedDomains)

\* What m.GetCertificate may answer: an error, or a certificate with some
\* lifetime left.
AcmeOutcomes ==
  {[ok |-> FALSE, life |-> 0]}
    \cup {[ok |-> TRUE, life |-> l] : l \in {1, RefreshThreshold + 2}}

Certificate(id, notAfter, leaf, issuer) ==
  [id |-> id, NotAfter |-> notAfter, Leaf |-> leaf, issuer |-> issuer]

NoError == "no error"

\* A nil *tls.Certificate.
NoCert == Certificate(0, 0, FALSE, "nil")

\* cert.Leaf = parsedCert through the pointer: every map entry that points
\* to this certificate sees the parsed leaf.
SetLeaf(cache, id) ==
  [k \in DOMAIN cache |->
     IF cache[k] # NoCert /\ cache[k].id = id
     THEN [cache[k] EXCEPT !.Leaf = TRUE] ELSE cache[k]]

\* A certificate valid for two weeks only.
CertificateLifetimeShort == FourteenDays

\* getTLSCert's template: NotAfter is time.Now() plus
\* config.CertificateExpiryRefreshThreshold + 14*24*time.Hour.
CertificateLifetime == RefreshThreshold + FourteenDays

\* getTLSCert without the white list check.
getTLSCertNoWhiteList(serverName, keyOk) ==
  LET ascii == ToASCII(serverName)
  IN  IF serverName = ""
      THEN [cert |-> NoCert, err |-> "missing server name", keygen |-> FALSE,
            CommonName |-> ""]
      ELSE IF ~ascii.ok
      THEN [cert |-> NoCert, err |-> "invalid character", keygen |-> FALSE,
            CommonName |-> ""]
      ELSE IF ~keyOk
      THEN [cert |-> NoCert, err |-> "issuance failed", keygen |-> TRUE,
            CommonName |-> ""]
      ELSE [cert |-> Certificate(serial + 1, now + CertificateLifetime,
                                 FALSE, "self"),
            err |-> NoError, keygen |-> TRUE, CommonName |-> ascii.name]

\* getTLSCert: keyOk is whether rsa.GenerateKey, x509.CreateCertificate and
\* tls.X509KeyPair all succeed.  tls.X509KeyPair leaves Leaf nil.
getTLSCert(serverName, keyOk) ==
  LET ascii == ToASCII(serverName)
  IN  IF serverName = ""
      THEN [cert |-> NoCert, err |-> "missing server name", keygen |-> FALSE,
            CommonName |-> ""]
      ELSE IF ~ascii.ok
      THEN [cert |-> NoCert, err |-> "invalid character", keygen |-> FALSE,
            CommonName |-> ""]
      ELSE IF ascii.name \notin allowedDomainsSelfSignedWhiteList
      THEN [cert |-> NoCert, err |-> "not in white list", keygen |-> FALSE,
            CommonName |-> ""]
      ELSE IF ~keyOk
      THEN [cert |-> NoCert, err |-> "issuance failed", keygen |-> TRUE,
            CommonName |-> ""]
      ELSE [cert |-> Certificate(serial + 1, now + CertificateLifetime,
                                 FALSE, "self"),
            err |-> NoError, keygen |-> TRUE, CommonName |-> ascii.name]

\* The expiry test with the boundary on the other side.
IsExpiringInclusive(remaining) == remaining <= RefreshThreshold

\* getCertificate: duration < config.CertificateExpiryRefreshThreshold.
IsExpiring(remaining) == remaining < RefreshThreshold

\* The delegate's certificate kept in certCache as well.
AcmeSuccessStored(cache, name, cert) == [cache EXCEPT ![name] = cert]

\* getCertificate after m.GetCertificate succeeded: the certificate is
\* returned, certCache is left as it is.
AcmeSuccess(cache, name, cert) == cache

\* The self signed certificate returned without being kept.
SelfSignedNotStored(cache, name, cert) == cache

\* getCertificate after getTLSCert succeeded: certCache[name] = cert.
SelfSignedStored(cache, name, cert) == [cache EXCEPT ![name] = cert]

\* getCertificate(&tls.ClientHelloInfo{ServerName: serverName}) with the
\* delegate answering acme and issuance succeeding or not: the cache, the
\* return values and what was done on the way.
getCertificate(serverName, acme, keyOk) ==
  LET ascii == ToASCII(serverName)
      name == ascii.name
      cached == certCache[name]
      remaining == cached.NotAfter - now
      looked == IF cached = NoCert THEN certCache ELSE SetLeaf(certCache, cached.id)
      parsed == IF cached # NoCert /\ ~cached.Leaf THEN {"parse"} ELSE {}
      evicted == IF cached = NoCert THEN looked ELSE [looked EXCEPT ![name] = NoCert]
      evict == IF cached = NoCert THEN {} ELSE {"evict"}
      acmeCert == Certificate(serial + 1, now + acme.life, TRUE, "acme")
      selfSigned == getTLSCert(serverName, keyOk)
      keygen == IF selfSigned.keygen THEN {"keygen"} ELSE {}
  IN  IF serverName = ""
      THEN [cache |-> certCache, cert |-> NoCert, err |-> "missing server name",
            effects |-> {}, duration |-> <<>>, serial |-> serial]
      ELSE IF ~ascii.ok
      THEN [cache |-> certCache, cert |-> NoCert, err |-> "invalid character",
            effects |-> {}, duration |-> <<>>, serial |-> serial]
      ELSE IF cached # NoCert /\ ~IsExpiring(remaining)
      THEN [cache |-> looked, cert |-> looked[name], err |-> NoError,
            effects |-> parsed, duration |-> <<remaining>>, serial |-> serial]
      ELSE IF acme.ok
      THEN [cache |-> AcmeSuccess(evicted, name, acmeCert), cert |-> acmeCert,
            err |-> NoError, effects |-> parsed \cup evict \cup {"acme"},
            duration |-> IF cached = NoCert THEN <<>> ELSE <<remaining>>,
            serial |-> serial + 1]
      ELSE IF selfSigned.err = NoError
      THEN [cache |-> SelfSignedStored(evicted, name, selfSigned.cert),
            cert |-> selfSigned.cert, err |-> NoError,
            effects |-> parsed \cup evict \cup {"acme", "acmeError", "store"} \cup keygen,
            duration |-> IF cached = NoCert THEN <<>> ELSE <<remaining>>,
            serial |-> serial + 1]
      ELSE [cache |-> evicted, cert |-> NoCert, err |-> selfSigned.err,
            effects |-> parsed \cup evict \cup {"acme", "acmeError"} \cup keygen,
            duration |-> IF cached = NoCert THEN <<>> ELSE <<remaining>>,
            serial |-> serial]

\* The delegate answers with a certificate only for a host its HostPolicy
\* admits.
AcmeMayAnswer(serverName, acme) ==
  acme.ok => (ToASCII(serverName).ok /\ ToASCII(serverName).name \in HostPolicy)

\* The state when initCertificates has made its maps and starts its loop.
InitCert ==
  /\ certCache = [k \in CertNames |-> NoCert]
  /\ now = 0 /\ serial = 0 /\ initIndex = 1 /\ calls = 0
  /\ hello = Nil /\ duration = <<>> /\ effects = {}
  /\ ret = [cert |-> NoCert, err |-> NoError]
  /\ CodecParked /\ ProxyParked /\ RestParked

\* initCertificates, one pass of its loop: the certificate getCertificate
\* returns gets its Leaf parsed and is stored under the configured name.
InitCertificatesStep ==
  /\ initIndex <= Len(AllSelfSignedDomains)
  /\ \E acme \in AcmeOutcomes, keyOk \in BOOLEAN :
       LET serverName == AllSelfSignedDomains[initIndex]
           r == getCertificate(serverName, acme, keyOk)
       IN  /\ AcmeMayAnswer(serverName, acme)
           /\ certCache' =
                IF r.err # NoError THEN r.cache
                ELSE [SetLeaf(r.cache, r.cert.id) EXCEPT
                        ![serverName] = [r.cert EXCEPT !.Leaf = TRUE]]
           /\ hello' = serverName
           /\ ret' = [cert |-> r.cert, err |-> r.err]
           /\ effects' = r.effects \cup {"init"}
           /\ duration' = r.duration
           /\ serial' = r.serial
  /\ initIndex' = initIndex + 1
  /\ calls' = calls + 1
  /\ UNCHANGED <<now, codecVars, proxyVars, restVars>>

\* httpsServer's TLSConfig.GetCertificate: one handshake's getCertificate.
Handshake ==
  /\ initIndex > Len(AllSelfSignedDomains)
  /\ calls < Len(AllSelfSignedDomains) + MaxCalls
  /\ \E serverName \in ServerNames, acme \in AcmeOutcomes, keyOk \in BOOLEAN :
       LET r == getCertificate(serverName, acme, keyOk)
       IN  /\ AcmeMayAnswer(serverName, acme)
           /\ certCache' = r.cache
           /\ hello' = serverName
           /\ ret' = [cert |-> r.cert, err |-> r.err]
           /\ effects' = r.effects
           /\ duration' = r.duration
           /\ serial' = r.serial
  /\ calls' = calls + 1
  /\ UNCHANGED <<now, initIndex, codecVars, proxyVars, restVars>>

\* A second passes.
Tick ==
  /\ now < MaxTime
  /\ now' = now + 1
  /\ UNCHANGED <<certCache, serial, initIndex, calls, hello, duration, ret, effects,
                 codecVars, proxyVars, restVars>>

NextCert ==
  \/ InitCertificatesStep
  \/ Handshake
  \/ Tick

SpecCert == InitCert /\ [][NextCert]_vars

(***************************************************************************)
(* Claims about getCertificate.  hello, ret, effects and duration describe *)
(* the last getCertificate call.                                           *)
(***************************************************************************)

\* The last call was made with a server name getCertificate could normalize.
Normalized == hello \in ServerNames /\ hello # "" /\ ToASCII(hello).ok

helloName == ToASCII(hello).name

\* In the state a step starts in, certCache holds a certificate for this
\* server name with at least the refresh threshold of lifetime left.
ValidEntry(serverName) ==
  /\ serverName # "" /\ ToASCII(serverName).ok
  /\ certCache[ToASCII(serverName).name] # NoCert
  /\ certCache[ToASCII(serverName).name].NotAfter - now >= RefreshThreshold

\* C6: a handshake's getCertificate for a name whose certCache entry has at
\* least the refresh threshold of lifetime left returns that entry without
\* error, asks the ACME delegate nothing, issues nothing and sends no Command,
\* and leaves certCache as it was but for the parsed Leaf it memoizes in the
\* entry; a second such call in succession returns the identical certificate
\* and leaves certCache exactly as it was.
C6_FastPath ==
  [][ (calls' = calls + 1 /\ "init" \notin effects' /\ ValidEntry(hello'))
        => LET name == ToASCII(hello').name
           IN  /\ ret'.err = NoError
               /\ ret'.cert.id = certCache[name].id
               /\ ret'.cert.NotAfter = certCache[name].NotAfter
               /\ ret'.cert.issuer = certCache[name].issuer
               /\ effects' \subseteq {"parse"}
               /\ serial' = serial
               /\ certCache' = SetLeaf(certCache, certCache[name].id)
               /\ UNCHANGED proxyVars
               /\ (/\ Normalized /\ helloName = name
                   /\ ret.err = NoError /\ effects \subseteq {"parse"})
                    => (ret' = ret /\ certCache' = certCache /\ effects' = {})
    ]_vars

\* A handshake took the fast path a second time, for a certificate that a
\* handshake had issued, with a mixed case server name.
C6_Witness ==
  /\ hello = "Self.test" /\ effects = {} /\ ret.err = NoError
  /\ ret.cert.id > Len(AllSelfSignedDomains)
  /\ ret.cert.issuer = "self" /\ ret.cert.Leaf
  /\ duration = <<RefreshThreshold + 1>>
  /\ certCache["self.test"] = ret.cert

\* C7 as stated: an entry with exactly the refresh threshold left is evicted and
\* resolved again, one with a second more is returned from certCache.
C7_BoundaryEvicts ==
  /\ (Normalized /\ duration = <<RefreshThreshold>>)
       => ("evict" \in effects /\ "acme" \in effects)
  /\ (Normalized /\ duration = <<RefreshThreshold + 1>>)
       => (/\ "evict" \notin effects /\ "acme" \notin effects
           /\ ret.err = NoError /\ ret.cert.id = certCache[helloName].id)

\* C7: an entry with exactly the refresh threshold left, or a second more, is
\* returned from certCache; an entry with a second less than the threshold is
\* evicted and resolved again.
C7_Boundary ==
  /\ (Normalized /\ duration \in {<<RefreshThreshold>>, <<RefreshThreshold + 1>>})
       => (/\ "evict" \notin effects /\ "acme" \notin effects
           /\ ret.err = NoError /\ ret.cert.id = certCache[helloName].id)
  /\ (Normalized /\ duration = <<RefreshThreshold - 1>>)
       => (/\ "evict" \in effects /\ "acme" \in effects
           /\ "store" \notin effects => certCache[helloName] = NoCert)

\* A call found an entry with exactly the refresh threshold left and returned it.
C7_Witness ==
  /\ Normalized /\ duration = <<RefreshThreshold>> /\ "init" \notin effects
  /\ ret.err = NoError /\ ret.cert.id = certCache[helloName].id
  /\ ret.cert.NotAfter - now = RefreshThreshold

\* C8: when the ACME delegate answers a call for a white listed name with an
\* error, getCertificate goes on to issue a self signed certificate; it either
\* stores that certificate in certCache under the normalized name and returns
\* it without error, or issuance failed and that is the error it returns.
C8_SelfSignedFallback ==
  (/\ Normalized /\ helloName \in allowedDomainsSelfSignedWhiteList
   /\ "acmeError" \in effects)
    => /\ "keygen" \in effects
       /\ \/ /\ ret.err = NoError
             /\ ret.cert.issuer = "self"
             /\ "store" \in effects
             /\ certCache[helloName].id = ret.cert.id
          \/ /\ ret.err = "issuance failed"
             /\ ret.cert = NoCert
             /\ "store" \notin effects
             /\ certCache[helloName] = NoCert

\* A handshake with a mixed case name evicted an expiring entry, got an error
\* from the delegate and stored a fresh self signed certificate.
C8_Witness ==
  /\ hello = "Self.test" /\ "init" \notin effects
  /\ {"evict", "acmeError", "keygen", "store"} \subseteq effects
  /\ ret.err = NoError /\ ret.cert.issuer = "self"
  /\ certCache["self.test"].id = ret.cert.id

\* The delegate answered the last call with a certificate.
AcmeSucceeded == Normalized /\ "acme" \in effects /\ "acmeError" \notin effects

Unservable == {"", "bad name"}

\* C11: a getCertificate call with an empty server name, or one that cannot
\* be converted to ASCII, returns the matching error and no certificate, has
\* looked at no cache entry, asked the ACME delegate nothing and issued
\* nothing, and leaves certCache as it was.
C11_InvalidName ==
  [][ (calls' = calls + 1 /\ hello' \in Unservable)
        => /\ ret' = [cert |-> NoCert,
                      err |-> IF hello' = "" THEN "missing server name"
                              ELSE "invalid character"]
           /\ effects' \subseteq {"init"}
           /\ duration' = <<>>
           /\ serial' = serial
           /\ certCache' = certCache
    ]_vars

\* A handshake asked for a name that cannot be converted, while certCache
\* held a certificate, and got the error.
C11_Witness ==
  /\ hello = "bad name" /\ ret.err = "invalid character" /\ ret.cert = NoCert
  /\ effects = {} /\ duration = <<>>
  /\ certCache["self.test"] # NoCert /\ certCache["self.test"].issuer = "self"

(***************************************************************************)
(* SpecHandshakes: net/http runs every connection's TLS handshake in a     *)
(* goroutine of its own, so getCertificate runs in several goroutines at   *)
(* once over the one certCache map, which no lock guards.  One step per    *)
(* access to the map or to the certificate an entry points to.             *)
(***************************************************************************)

\* getCertificate calls made in one behaviour.
MaxHandshakes == 3

Goroutines == {"g1", "g2"}

\* Server names of the handshakes.
HandshakeNames == {"Self.test", "le.test"}

Idle == [pos |-> "idle", serverName |-> "", expiration |-> 0, cert |-> NoCert]
NoReturn == [state |-> "none", name |-> "", cert |-> NoCert, err |-> NoError]

\* What certCache may hold for a name when the handshakes start: nothing, or
\* a certificate that is expiring or just not, with its Leaf parsed by
\* initCertificates or not yet parsed.
InitialEntries(id) ==
  {NoCert} \cup
    {Certificate(id, notAfter, leaf, "self") :
       notAfter \in {RefreshThreshold - 1, RefreshThreshold}, leaf \in BOOLEAN}

InitHandshakes ==
  /\ certCache \in
       {[k \in CertNames |->
           IF k = "self.test" THEN e1 ELSE IF k = "le.test" THEN e2 ELSE NoCert] :
          e1 \in InitialEntries(1), e2 \in InitialEntries(2)}
  /\ now = 0 /\ serial = 2 /\ initIndex = Len(AllSelfSignedDomains) + 1 /\ calls = 0
  /\ hello = Nil /\ duration = <<>> /\ effects = {}
  /\ ret = [cert |-> NoCert, err |-> NoError]
  /\ hs = [g \in Goroutines |-> Idle]
  /\ hret = [g \in Goroutines |-> NoReturn]
  /\ mapWriters = {} /\ fatal = FALSE
  /\ CodecParked /\ ProxyParked /\ LaterParked

lastCall == <<now, initIndex, hello, duration, ret, effects>>

hsName(g) == ToASCII(hs[g].serverName).name

\* return cert, err
Return(g, cert, err) ==
  /\ hret' = [hret EXCEPT ![g] = [state |-> "returned", name |-> hsName(g),
                                  cert |-> cert, err |-> err]]
  /\ hs' = [hs EXCEPT ![g] = Idle]

\* A nil pointer dereference: the panic unwinds getCertificate and the
\* handshake, and net/http's conn.serve recovers it and drops the connection.
Panic(g) ==
  /\ hret' = [hret EXCEPT ![g] = [state |-> "panic", name |-> hsName(g),
                                  cert |-> NoCert, err |-> NoError]]
  /\ hs' = [hs EXCEPT ![g] = Idle]

\* A handshake arrives: getCertificate up to the name conversion (422-442).
GetCertificateEnter(g) ==
  /\ ~fatal /\ hs[g].pos = "idle" /\ calls < MaxHandshakes
  /\ \E serverName \in HandshakeNames :
       hs' = [hs EXCEPT ![g] = [Idle EXCEPT !.pos = "check", !.serverName = serverName]]
  /\ hret' = [hret EXCEPT ![g] = NoReturn]
  /\ calls' = calls + 1
  /\ UNCHANGED <<certCache, serial, mapWriters, fatal, lastCall,
                 codecVars, proxyVars, laterVars>>

\* if certCache[name] != nil (444)
GetCertificateCheck(g) ==
  /\ ~fatal /\ hs[g].pos = "check"
  /\ hs' = [hs EXCEPT ![g].pos =
              IF certCache[hsName(g)] # NoCert THEN "leaf" ELSE "acme"]
  /\ UNCHANGED <<certCache, serial, calls, hret, mapWriters, fatal, lastCall,
                 codecVars, proxyVars, laterVars>>

\* if certCache[name].Leaf == nil (446)
GetCertificateLeaf(g) ==
  /\ ~fatal /\ hs[g].pos = "leaf"
  /\ IF certCache[hsName(g)] = NoCert
     THEN Panic(g)
     ELSE /\ hs' = [hs EXCEPT ![g].pos =
                      IF certCache[hsName(g)].Leaf THEN "expiry" ELSE "parse"]
          /\ hret' = hret
  /\ UNCHANGED <<certCache, serial, calls, mapWriters, fatal, lastCall,
                 codecVars, proxyVars, laterVars>>

\* x509.ParseCertificate(certCache[name].Certificate[0]);
\* certCache[name].Leaf = parsedCert (447-451)
GetCertificateParse(g) ==
  /\ ~fatal /\ hs[g].pos = "parse"
  /\ IF certCache[hsName(g)] = NoCert
     THEN Panic(g) /\ certCache' = certCache
     ELSE /\ certCache' = SetLeaf(certCache, certCache[hsName(g)].id)
          /\ hs' = [hs EXCEPT ![g].pos = "expiry"]
          /\ hret' = hret
  /\ UNCHANGED <<serial, calls, mapWriters, fatal, lastCall, codecVars, proxyVars, laterVars>>

\* expiration := certCache[name].Leaf.NotAfter (455)
GetCertificateExpiration(g) ==
  /\ ~fatal /\ hs[g].pos = "expiry"
  /\ IF certCache[hsName(g)] = NoCert
     THEN Panic(g)
     ELSE /\ hs' = [hs EXCEPT ![g].pos = "decide",
                              ![g].expiration = certCache[hsName(g)].NotAfter]
          /\ hret' = hret
  /\ UNCHANGED <<certCache, serial, calls, mapWriters, fatal, lastCall,
                 codecVars, proxyVars, laterVars>>

\* duration := time.Until(expiration); an expiring entry: the assignment
\* certCache[name] = nil begins (461); otherwise return certCache[name], nil
\* (465), whatever the map holds by now.
GetCertificateDecide(g) ==
  /\ ~fatal /\ hs[g].pos = "decide"
  /\ IF IsExpiring(hs[g].expiration - now)
     THEN /\ mapWriters' = mapWriters \cup {g}
          /\ hs' = [hs EXCEPT ![g].pos = "evict"]
          /\ hret' = hret
     ELSE /\ Return(g, certCache[hsName(g)], NoError)
          /\ mapWriters' = mapWriters
  /\ UNCHANGED <<certCache, serial, calls, fatal, lastCall, codecVars, proxyVars, laterVars>>

\* certCache[name] = nil is done (461).
GetCertificateEvict(g) ==
  /\ ~fatal /\ hs[g].pos = "evict"
  /\ certCache' = [certCache EXCEPT ![hsName(g)] = NoCert]
  /\ mapWriters' = mapWriters \ {g}
  /\ hs' = [hs EXCEPT ![g].pos = "acme"]
  /\ UNCHANGED <<serial, calls, hret, fatal, lastCall, codecVars, proxyVars, laterVars>>

\* cert, err := m.GetCertificate(hello) (470-475); autocert.Manager locks
\* its own state.
GetCertificateAcme(g) ==
  /\ ~fatal /\ hs[g].pos = "acme"
  /\ \E acme \in AcmeOutcomes :
       /\ AcmeMayAnswer(hs[g].serverName, acme)
       /\ IF acme.ok
          THEN /\ Return(g, Certificate(serial + 1, now + acme.life, TRUE, "acme"), NoError)
               /\ serial' = serial + 1
          ELSE /\ hs' = [hs EXCEPT ![g].pos = "issue"]
               /\ UNCHANGED <<hret, serial>>
  /\ UNCHANGED <<certCache, calls, mapWriters, fatal, lastCall, codecVars, proxyVars, laterVars>>

\* cert, err = getTLSCert(hello) (478-480); on success the assignment
\* certCache[name] = cert begins (481).
GetCertificateIssue(g) ==
  /\ ~fatal /\ hs[g].pos = "issue"
  /\ \E keyOk \in BOOLEAN :
       LET selfSigned == getTLSCert(hs[g].serverName, keyOk)
       IN  IF selfSigned.err = NoError
           THEN /\ hs' = [hs EXCEPT ![g].pos = "store", ![g].cert = selfSigned.cert]
                /\ serial' = serial + 1
                /\ mapWriters' = mapWriters \cup {g}
                /\ hret' = hret
           ELSE /\ Return(g, NoCert, selfSigned.err)
                /\ UNCHANGED <<serial, mapWriters>>
  /\ UNCHANGED <<certCache, calls, fatal, lastCall, codecVars, proxyVars, laterVars>>

\* A store that also hands the certificate to DirCache.Put.
GetCertificateStorePersisted(g) ==
  /\ ~fatal /\ hs[g].pos = "store"
  /\ certCache' = [certCache EXCEPT ![hsName(g)] = hs[g].cert]
  /\ mapWriters' = mapWriters \ {g}
  /\ Return(g, hs[g].cert, NoError)
  /\ childStdout' = childStdout \o Frame(Command(cmdPut, <<"a">>, OldData))
  /\ UNCHANGED <<serial, calls, fatal, lastCall, codecVars, laterVars,
                 certCacheBytes, pc, call, result, childStdin, parentDecoded,
                 parentResponse, childDecoded, store, opsLeft, getQueue, answer,
                 lastPut>>

\* certCache[name] = cert is done; return cert, nil (481-482).
GetCertificateStore(g) ==
  /\ ~fatal /\ hs[g].pos = "store"
  /\ certCache' = [certCache EXCEPT ![hsName(g)] = hs[g].cert]
  /\ mapWriters' = mapWriters \ {g}
  /\ Return(g, hs[g].cert, NoError)
  /\ UNCHANGED <<serial, calls, fatal, lastCall, codecVars, proxyVars, laterVars>>

\* Where a goroutine's next step reads or assigns the map.
AtMapAccess(g) ==
  hs[g].pos \in {"check", "leaf", "parse", "expiry", "decide", "evict", "store"}

\* The Go runtime may notice a map access made while another goroutine is
\* inside an assignment to the same map: it throws "concurrent map writes"
\* or "concurrent map read and map write", which nothing recovers.
ConcurrentMapFault(g) ==
  /\ ~fatal /\ AtMapAccess(g)
  /\ mapWriters \ {g} # {}
  /\ fatal' = TRUE
  /\ UNCHANGED <<certCache, serial, calls, hs, hret, mapWriters, lastCall,
                 codecVars, proxyVars, laterVars>>

NextHandshakes ==
  \E g \in Goroutines :
    \/ GetCertificateEnter(g)
    \/ GetCertificateCheck(g)
    \/ GetCertificateLeaf(g)
    \/ GetCertificateParse(g)
    \/ GetCertificateExpiration(g)
    \/ GetCertificateDecide(g)
    \/ GetCertificateEvict(g)
    \/ GetCertificateAcme(g)
    \/ GetCertificateIssue(g)
    \/ GetCertificateStore(g)
    \/ ConcurrentMapFault(g)

SpecHandshakes == InitHandshakes /\ [][NextHandshakes]_vars

\* C12: when handshakes are in getCertificate at the same time for a white
\* listed domain, the runtime throws no fatal error, no call ends in a panic,
\* every call returns a certificate and no error unless issuance itself
\* failed, and once two calls for the same name have both returned a self
\* signed or cached certificate, certCache holds a certificate for the name
\* that is not expiring.
C12_ConcurrentHandshakes ==
  /\ ~fatal
  /\ \A g \in Goroutines :
       /\ hret[g].state # "panic"
       /\ hret[g].state = "returned"
            => \/ hret[g].err = NoError /\ hret[g].cert # NoCert
               \/ hret[g].err = "issuance failed"
  /\ \A g1, g2 \in Goroutines :
       (/\ g1 # g2
        /\ hs[g1].pos = "idle" /\ hs[g2].pos = "idle"
        /\ hret[g1].state = "returned" /\ hret[g2].state = "returned"
        /\ hret[g1].err = NoError /\ hret[g2].err = NoError
        /\ hret[g1].cert.issuer = "self" /\ hret[g2].cert.issuer = "self"
        /\ hret[g1].name = hret[g2].name)
         => /\ certCache[hret[g1].name] # NoCert
            /\ ~IsExpiring(certCache[hret[g1].name].NotAfter - now)

\* C29: no two handshakes are inside an assignment to certCache for the
\* same name at the same time, and no handshake reads the entry of a name
\* while another is inside an assignment to it.
C29_WritesExclusive ==
  \A g1, g2 \in Goroutines :
    (g1 # g2 /\ g1 \in mapWriters /\ hsName(g1) = hsName(g2))
      => g2 \notin mapWriters /\ ~AtMapAccess(g2)

(***************************************************************************)
(* SpecServer: runServer and its two listener goroutines, the worker's      *)
(* inbound decoder where it meets terminateServer, and terminateServerList. *)
(***************************************************************************)

\* In-flight connections a server may have at once.
MaxConns == 1
\* Frames on the worker's standard input.
MaxStdinFrames == 2

Servers == {"http", "https"}

\* sync.WaitGroup.Add at the top of runServer.
BindSignals == 2
JailedSignals == 1
ServerClosedSignals == 2

\* sync.WaitGroup.Wait returns when the counter is zero.
BindDoneReleasedEarly(counter) == counter <= 1
BindDoneReleased(counter) == counter = 0
JailedReleasedAlways(counter) == TRUE
JailedReleased(counter) == counter = 0

\* The inbound decoder calls terminateServer itself for a Terminate Command
\* and sends every other Command on parentToChildCh.
HandledLocally(command) == command.Type = cmdTerminate

\* http.Server.Shutdown(ctx): nil once no connection is in flight, the
\* context's error once the deadline has passed.
ErrServerClosed == "http: Server closed"
DeadlineExceeded == "context deadline exceeded"
ShutdownWaitsForConns(inflight, expired) ==
  IF inflight = 0 THEN {NoError} ELSE {}
Shutdown(inflight, expired) ==
  (IF inflight = 0 THEN {NoError} ELSE {}) \cup
  (IF expired THEN {DeadlineExceeded} ELSE {})

\* What the supervisor may have written to the worker's standard input.
StdinFrames ==
  {Frame(Command(cmdTerminate, <<>>, <<>>)), Frame(Command(cmdGet, <<"a">>, OldData)),
   <<"l", NL>>}
RECURSIVE StdinStreams(_)
StdinStreams(n) ==
  IF n = 0 THEN {<<>>}
  ELSE StdinStreams(n - 1) \cup {s \o f : s \in StdinStreams(n - 1), f \in StdinFrames}

proxyOther == <<certCacheBytes, pc, call, result, childStdout, parentDecoded,
                parentResponse, store, opsLeft, getQueue, answer, lastPut>>
otherVars == <<codecVars, certVars, handshakeVars, proxyOther, superVars, moreVars>>

InitServer ==
  /\ jailProcess \in BOOLEAN
  /\ runServerPc = "create"
  /\ server = [s \in Servers |-> "nil"]
  /\ listener = [s \in Servers |-> "none"]
  /\ wgBindDone = BindSignals /\ wgJailed = JailedSignals
  /\ wgServerClosed = ServerClosedSignals
  /\ jail = "no"
  /\ conns = [s \in Servers |-> 0]
  /\ terminate = "idle"
  /\ shut = [s \in Servers |-> "none"]
  /\ wgShutdown = 0 /\ ctx = "none"
  /\ worker = "running"
  /\ delivered = <<>>
  /\ childStdin \in StdinStreams(MaxStdinFrames)
  /\ childDecoded = <<>>
  /\ certCacheBytes = <<>> /\ pc = <<>> /\ call = <<>> /\ result = <<>>
  /\ childStdout = <<>> /\ parentDecoded = <<>> /\ parentResponse = <<>>
  /\ store = <<>> /\ opsLeft = 0
  /\ getQueue = <<>> /\ answer = <<>> /\ lastPut = <<>>
  /\ CodecParked /\ CertParked /\ HandshakesParked /\ SupervisorParked
  /\ MoreParked

\* runServer: httpServer = &http.Server{...}; go func() {...}()
CreateHttpServer ==
  /\ worker = "running" /\ runServerPc = "create"
  /\ server' = [server EXCEPT !["http"] = "created"]
  /\ listener' = [listener EXCEPT !["http"] = "listen"]
  /\ runServerPc' = "createHttps"
  /\ UNCHANGED <<jailProcess, wgBindDone, wgJailed, wgServerClosed, jail, conns,
                 terminate, shut, wgShutdown, ctx, worker, delivered,
                 childStdin, childDecoded, otherVars>>

\* runServer: httpsServer = &http.Server{...}; go func() {...}()
CreateHttpsServer ==
  /\ worker = "running" /\ runServerPc = "createHttps"
  /\ server' = [server EXCEPT !["https"] = "created"]
  /\ listener' = [listener EXCEPT !["https"] = "listen"]
  /\ runServerPc' = "waitBind"
  /\ UNCHANGED <<jailProcess, wgBindDone, wgJailed, wgServerClosed, jail, conns,
                 terminate, shut, wgShutdown, ctx, worker, delivered,
                 childStdin, childDecoded, otherVars>>

\* Listener goroutine: ln, err := net.Listen(...); log.Fatal(err) on an error.
Listen(s) ==
  /\ worker = "running" /\ listener[s] = "listen"
  /\ \E ok \in BOOLEAN :
       IF ok
       THEN listener' = [listener EXCEPT ![s] = "bound"] /\ worker' = worker
       ELSE listener' = listener /\ worker' = "fatal listen"
  /\ UNCHANGED <<jailProcess, runServerPc, server, wgBindDone, wgJailed,
                 wgServerClosed, jail, conns, terminate, shut, wgShutdown, ctx,
                 delivered, childStdin, childDecoded, otherVars>>

\* Listener goroutine: wgBindDone.Done()
BindDone(s) ==
  /\ worker = "running" /\ listener[s] = "bound"
  /\ wgBindDone' = wgBindDone - 1
  /\ listener' = [listener EXCEPT ![s] = "waitJailed"]
  /\ UNCHANGED <<jailProcess, runServerPc, server, wgJailed, wgServerClosed, jail,
                 conns, terminate, shut, wgShutdown, ctx, worker, delivered,
                 childStdin, childDecoded, otherVars>>

\* runServer: wgBindDone.Wait(), then the test of config.JailProcess.
BindDoneWait ==
  /\ worker = "running" /\ runServerPc = "waitBind"
  /\ BindDoneReleased(wgBindDone)
  /\ runServerPc' = IF jailProcess THEN "jail" ELSE "jailedDone"
  /\ UNCHANGED <<jailProcess, server, listener, wgBindDone, wgJailed,
                 wgServerClosed, jail, conns, terminate, shut, wgShutdown, ctx,
                 worker, delivered, childStdin, childDecoded, otherVars>>

\* runServer: Jail(config.JailDirectory) is entered.
JailStart ==
  /\ worker = "running" /\ runServerPc = "jail" /\ jail = "no"
  /\ jail' = "started"
  /\ UNCHANGED <<jailProcess, runServerPc, server, listener, wgBindDone, wgJailed,
                 wgServerClosed, conns, terminate, shut, wgShutdown, ctx,
                 worker, delivered, childStdin, childDecoded, otherVars>>

\* Jail returns, or one of its system calls fails and it calls log.Fatal.
JailEnd ==
  /\ worker = "running" /\ runServerPc = "jail" /\ jail = "started"
  /\ \E ok \in BOOLEAN :
       IF ok
       THEN jail' = "done" /\ runServerPc' = "jailedDone" /\ worker' = worker
       ELSE jail' = jail /\ runServerPc' = runServerPc /\ worker' = "fatal jail"
  /\ UNCHANGED <<jailProcess, server, listener, wgBindDone, wgJailed,
                 wgServerClosed, conns, terminate, shut, wgShutdown, ctx,
                 delivered, childStdin, childDecoded, otherVars>>

\* runServer: wgJailed.Done(), then it blocks in wgServerClosed.Wait().
JailedDone ==
  /\ worker = "running" /\ runServerPc = "jailedDone"
  /\ wgJailed' = wgJailed - 1
  /\ runServerPc' = "waitClosed"
  /\ UNCHANGED <<jailProcess, server, listener, wgBindDone, wgServerClosed, jail,
                 conns, terminate, shut, wgShutdown, ctx, worker, delivered,
                 childStdin, childDecoded, otherVars>>

\* Listener goroutine: wgJailed.Wait() returns and Serve / ServeTLS is called.
JailedWait(s) ==
  /\ worker = "running" /\ listener[s] = "waitJailed"
  /\ JailedReleased(wgJailed)
  /\ listener' = [listener EXCEPT ![s] = "serving"]
  /\ UNCHANGED <<jailProcess, runServerPc, server, wgBindDone, wgJailed,
                 wgServerClosed, jail, conns, terminate, shut, wgShutdown, ctx,
                 worker, delivered, childStdin, childDecoded, otherVars>>

\* Serve accepts a connection (for ServeTLS the handshake calls getCertificate).
Accept(s) ==
  /\ worker = "running" /\ listener[s] = "serving" /\ server[s] = "created"
  /\ conns[s] < MaxConns
  /\ conns' = [conns EXCEPT ![s] = @ + 1]
  /\ UNCHANGED <<jailProcess, runServerPc, server, listener, wgBindDone, wgJailed,
                 wgServerClosed, jail, terminate, shut, wgShutdown, ctx,
                 worker, delivered, childStdin, childDecoded, otherVars>>

\* A connection ends or becomes idle.
ConnDone(s) ==
  /\ worker = "running" /\ conns[s] > 0
  /\ conns' = [conns EXCEPT ![s] = @ - 1]
  /\ UNCHANGED <<jailProcess, runServerPc, server, listener, wgBindDone, wgJailed,
                 wgServerClosed, jail, terminate, shut, wgShutdown, ctx,
                 worker, delivered, childStdin, childDecoded, otherVars>>

\* Listener goroutine: Serve / ServeTLS returns once Shutdown was called, with
\* ErrServerClosed; if err != nil { log.Fatal(err) }; wgServerClosed.Done().
ServeReturn(s) ==
  /\ worker = "running" /\ listener[s] = "serving" /\ server[s] = "shutdown"
  /\ \E err \in {ErrServerClosed} :
       IF err # NoError
       THEN worker' = "fatal serve" /\ UNCHANGED <<listener, wgServerClosed>>
       ELSE /\ worker' = worker
            /\ wgServerClosed' = wgServerClosed - 1
            /\ listener' = [listener EXCEPT ![s] = "closed"]
  /\ UNCHANGED <<jailProcess, runServerPc, server, wgBindDone, wgJailed, jail,
                 conns, terminate, shut, wgShutdown, ctx, delivered,
                 childStdin, childDecoded, otherVars>>

\* The worker's inbound decoder reads one line or frame from standard input:
\* a Terminate Command makes it call terminateServer, which reads httpServer
\* and httpsServer, makes the context and starts one goroutine per server;
\* any other Command is sent on parentToChildCh; other lines are ignored.
ServerDecode ==
  /\ worker = "running" /\ terminate = "idle" /\ childDecoded = <<>>
  /\ \E f \in {ReadFrame(childStdin)} :
       /\ f.st # "blocked"
       /\ childStdin' = f.rest
       /\ IF f.st = "fatal"
          THEN worker' = "fatal decode"
               /\ UNCHANGED <<childDecoded, terminate, shut, wgShutdown, ctx>>
          ELSE IF f.st = "command" /\ HandledLocally(f.command)
          THEN /\ terminate' = "shutdown"
               /\ shut' = [s \in Servers |->
                             IF server[s] = "nil" THEN "nilServer" ELSE "spawned"]
               /\ wgShutdown' = Cardinality(Servers)
               /\ ctx' = "running"
               /\ UNCHANGED <<childDecoded, worker>>
          ELSE /\ childDecoded' = IF f.st = "command" THEN <<f.command>> ELSE <<>>
               /\ UNCHANGED <<terminate, shut, wgShutdown, ctx, worker>>
  /\ UNCHANGED <<jailProcess, runServerPc, server, listener, wgBindDone, wgJailed,
                 wgServerClosed, jail, conns, delivered, otherVars>>

\* A proxy Get waiting on parentToChildCh receives what the decoder sends.
ProxyRecv ==
  /\ worker = "running" /\ childDecoded # <<>>
  /\ delivered' = delivered \o childDecoded
  /\ childDecoded' = <<>>
  /\ UNCHANGED <<jailProcess, runServerPc, server, listener, wgBindDone, wgJailed,
                 wgServerClosed, jail, conns, terminate, shut, wgShutdown, ctx,
                 worker, childStdin, otherVars>>

\* Shutdown goroutine: server.Shutdown(ctx) is entered; on a nil server it
\* dereferences nil and the panic ends the worker.
ShutdownStart(s) ==
  /\ worker = "running" /\ shut[s] \in {"spawned", "nilServer"}
  /\ IF shut[s] = "nilServer"
     THEN worker' = "panic" /\ UNCHANGED <<server, shut>>
     ELSE /\ server' = [server EXCEPT ![s] = "shutdown"]
          /\ shut' = [shut EXCEPT ![s] = "polling"]
          /\ worker' = worker
  /\ UNCHANGED <<jailProcess, runServerPc, listener, wgBindDone, wgJailed,
                 wgServerClosed, jail, conns, terminate, wgShutdown, ctx,
                 delivered, childStdin, childDecoded, otherVars>>

\* Shutdown goroutine: Shutdown returns; log.Fatal on an error, else
\* wgShutdown.Done().
ShutdownReturn(s) ==
  /\ worker = "running" /\ shut[s] = "polling"
  /\ \E err \in Shutdown(conns[s], ctx = "expired") :
       IF err # NoError
       THEN worker' = "fatal shutdown" /\ UNCHANGED <<shut, wgShutdown>>
       ELSE /\ shut' = [shut EXCEPT ![s] = "done"]
            /\ wgShutdown' = wgShutdown - 1
            /\ worker' = worker
  /\ UNCHANGED <<jailProcess, runServerPc, server, listener, wgBindDone, wgJailed,
                 wgServerClosed, jail, conns, terminate, ctx, delivered,
                 childStdin, childDecoded, otherVars>>

\* The 10 seconds of context.WithTimeout pass.
Deadline ==
  /\ worker = "running" /\ ctx = "running"
  /\ ctx' = "expired"
  /\ UNCHANGED <<jailProcess, runServerPc, server, listener, wgBindDone, wgJailed,
                 wgServerClosed, jail, conns, terminate, shut, wgShutdown,
                 worker, delivered, childStdin, childDecoded, otherVars>>

\* terminateServerList: wgShutdown.Wait() returns, the deferred cancel runs,
\* and the decoder goes back to reading.
TerminateReturn ==
  /\ worker = "running" /\ terminate = "shutdown" /\ wgShutdown = 0
  /\ terminate' = "idle"
  /\ ctx' = "none"
  /\ shut' = [s \in Servers |-> "none"]
  /\ UNCHANGED <<jailProcess, runServerPc, server, listener, wgBindDone, wgJailed,
                 wgServerClosed, jail, conns, wgShutdown, worker, delivered,
                 childStdin, childDecoded, otherVars>>

NextServer ==
  \/ CreateHttpServer
  \/ CreateHttpsServer
  \/ BindDoneWait
  \/ JailStart
  \/ JailEnd
  \/ JailedDone
  \/ ServerDecode
  \/ ProxyRecv
  \/ Deadline
  \/ TerminateReturn
  \/ \E s \in Servers :
       \/ Listen(s)
       \/ BindDone(s)
       \/ JailedWait(s)
       \/ Accept(s)
       \/ ConnDone(s)
       \/ ServeReturn(s)
       \/ ShutdownStart(s)
       \/ ShutdownReturn(s)

SpecServer == InitServer /\ [][NextServer]_vars

\* C13: Jail is not started until both listeners are bound and have called
\* wgBindDone.Done(); with one listener bound alone runServer is still at
\* wgBindDone.Wait().
C13_JailAfterBothBound ==
  /\ jail # "no" =>
       /\ wgBindDone = 0
       /\ \A s \in Servers : listener[s] \in {"waitJailed", "serving", "closed"}
  /\ (\E s \in Servers : listener[s] \in {"none", "listen", "bound"}) =>
       runServerPc \in {"create", "createHttps", "waitBind"}
C13_Witness ==
  /\ jail = "started"
  /\ \A s \in Servers : listener[s] = "waitJailed"

\* C14: with config.JailProcess set, a listener is in Serve / ServeTLS, or a
\* connection has been accepted, only once Jail has returned; and Jail has
\* been entered only once both listeners are bound.
C14_ServeAfterJail ==
  jailProcess =>
    /\ \A s \in Servers :
         (listener[s] \in {"serving", "closed"} \/ conns[s] > 0) => jail = "done"
    /\ jail # "no" => \A s \in Servers : listener[s] \notin {"none", "listen"}
C14_Witness ==
  /\ jailProcess /\ jail = "done"
  /\ listener["https"] = "serving" /\ conns["https"] > 0
  /\ listener["http"] = "waitJailed"

\* The decoder's next read takes a Terminate Command off standard input.
TerminateDecoded ==
  /\ worker = "running" /\ terminate = "idle" /\ childDecoded = <<>>
  /\ ReadFrame(childStdin).st = "command"
  /\ ReadFrame(childStdin).command.Type = cmdTerminate
  /\ childStdin' = ReadFrame(childStdin).rest

\* C17: a Terminate Command the worker decodes starts a Shutdown call on the
\* HTTP and on the HTTPS server, and neither the decoder's send on
\* parentToChildCh nor anything a proxy Get received from it is a Terminate.
C17_TerminateLocal ==
  [][ /\ \A i \in 1..Len(childDecoded') : childDecoded'[i].Type # cmdTerminate
      /\ \A i \in 1..Len(delivered') : delivered'[i].Type # cmdTerminate
      /\ TerminateDecoded =>
           /\ terminate' = "shutdown"
           /\ \A s \in Servers : shut'[s] = "spawned" ]_vars

\* The goroutines of terminateServerList and the timer of its context run.
ShutdownFairness ==
  /\ WF_vars(Deadline)
  /\ WF_vars(TerminateReturn)
  /\ \A s \in Servers : WF_vars(ShutdownStart(s)) /\ WF_vars(ShutdownReturn(s))

LiveSpecServer == InitServer /\ [][NextServer]_vars /\ ShutdownFairness

MaxWrites == 3

\* Lines of the worker's logger, without the newline.
LogLines == {<<"l">>, <<" ", "l">>, <<>>, <<"3">>}

\* The Commands the worker's outbound pump writes.
WorkerCommands ==
  {Command(cmdGet, <<"a">>, <<>>), Command(cmdPut, <<"a">>, <<"x", NL>>),
   Command(cmdDelete, <<"a">>, <<>>)}

\* The pump's writes up to and including its Flush: three lines.
FrameLines(command) ==
  command.Type \o <<NL>> \o command.Name \o <<NL>>
    \o Itoa(Len(command.Data)) \o <<NL>>

\* The first line of s as the decoder sees it.
FirstLine(s) == TrimSpace(SubSeq(s, 1, ReadString(s)))

\* for command := range childToParentCh ends once the channel is closed.
RangeNeverEnds(closed) == FALSE
RangeEnds(closed) == closed

\* close(childToParentCh) has run.
ChannelClosed == waitPc = "done"

\* The command loop's switch: what it logs for a Command.
LogRecordsDropped(command) == <<>>
LogRecords(command) ==
  IF command.Type \in {cmdGet, cmdPut, cmdDelete} THEN <<>> ELSE <<command.Type>>

supOther == <<certCacheBytes, pc, call, result, childDecoded, opsLeft, getQueue,
              answer, lastPut, codecVars, certVars, handshakeVars, serverVars,
              moreVars>>

supOtherLog == <<supOther, errorLog>>

\* What autocert.DirCache's Put and Delete return: nil or an error of the
\* file system.
StoreErrors == {"nil", "permission denied"}

\* A command loop that logs no error.
ErrorRecordsNone(text, err) == <<>>

\* if err != nil { log.Println(text, err) }
ErrorRecords(text, err) == IF err # "nil" THEN <<<<text, err>>>> ELSE <<>>

InitSupervisor ==
  /\ cmd = "running" /\ waitPc = "wait" /\ supervisor = "running"
  /\ logged = <<>> /\ errorLog = <<>> /\ lines = <<>> /\ pumpData = <<>>
  /\ writesLeft = MaxWrites
  /\ childStdout = <<>> /\ childStdin = <<>>
  /\ parentDecoded = <<>> /\ parentResponse = <<>>
  /\ store \in [{<<"a">>} -> {<<>>, OldData}]
  /\ certCacheBytes = <<>> /\ pc = <<>> /\ call = <<>> /\ result = <<>>
  /\ childDecoded = <<>> /\ opsLeft = 0
  /\ getQueue = <<>> /\ answer = <<>> /\ lastPut = <<>>
  /\ CodecParked /\ CertParked /\ HandshakesParked /\ ServerParked
  /\ MoreParked

\* The worker's logger writes one line to stdout, from any goroutine.
WorkerLog ==
  /\ supervisor = "running" /\ cmd = "running" /\ writesLeft > 0
  /\ \E l \in LogLines : childStdout' = childStdout \o l \o <<NL>>
  /\ writesLeft' = writesLeft - 1
  /\ UNCHANGED <<cmd, waitPc, supervisor, logged, lines, pumpData, childStdin,
                 parentDecoded, parentResponse, store, supOtherLog>>

\* The worker's outbound pump writes the three lines of a Command and
\* flushes them; the payload is a write of its own.
WorkerPumpLines ==
  /\ supervisor = "running" /\ cmd = "running" /\ writesLeft > 0
  /\ pumpData = <<>>
  /\ \E c \in WorkerCommands :
       /\ childStdout' = childStdout \o FrameLines(c)
       /\ pumpData' = IF c.Data = <<>> THEN <<>> ELSE <<c.Data>>
  /\ writesLeft' = writesLeft - 1
  /\ UNCHANGED <<cmd, waitPc, supervisor, logged, lines, childStdin,
                 parentDecoded, parentResponse, store, supOtherLog>>

\* The worker's outbound pump writes the payload: os.Stdout.Write(command.Data)
WorkerPumpData ==
  /\ supervisor = "running" /\ cmd = "running" /\ pumpData # <<>>
  /\ childStdout' = childStdout \o pumpData[1]
  /\ pumpData' = <<>>
  /\ UNCHANGED <<cmd, waitPc, supervisor, logged, lines, writesLeft, childStdin,
                 parentDecoded, parentResponse, store, supOtherLog>>

\* The worker's decoder reads what is on its stdin.
WorkerRead ==
  /\ supervisor = "running" /\ cmd = "running" /\ childStdin # <<>>
  /\ childStdin' = <<>>
  /\ UNCHANGED <<cmd, waitPc, supervisor, logged, lines, pumpData, writesLeft,
                 childStdout, parentDecoded, parentResponse, store, supOtherLog>>

\* The worker process exits: os.Exit(0) at the end of main, or log.Fatal.
WorkerExit ==
  /\ supervisor = "running" /\ cmd = "running"
  /\ cmd' \in {"exit 0", "exit 1"}
  /\ UNCHANGED <<waitPc, supervisor, logged, lines, pumpData, writesLeft,
                 childStdout, childStdin, parentDecoded, parentResponse, store,
                 supOtherLog>>

\* cmd.Wait() returns, its result dropped; it has closed the pipes.
CmdWait ==
  /\ supervisor = "running" /\ waitPc = "wait" /\ cmd # "running"
  /\ waitPc' = "close"
  /\ UNCHANGED <<cmd, supervisor, logged, lines, pumpData, writesLeft,
                 childStdout, childStdin, parentDecoded, parentResponse, store,
                 supOtherLog>>

\* close(childToParentCh)
CloseChannel ==
  /\ supervisor = "running" /\ waitPc = "close"
  /\ waitPc' = "done"
  /\ UNCHANGED <<cmd, supervisor, logged, lines, pumpData, writesLeft,
                 childStdout, childStdin, parentDecoded, parentResponse, store,
                 supOtherLog>>

\* The inbound decoder reads one frame, or one other line, and goes on to
\* send it on childToParentCh; log.Fatal on strconv.Atoi's error.
SupervisorDecode ==
  /\ supervisor = "running" /\ parentDecoded = <<>>
  /\ \E f \in {ReadFrame(childStdout)} :
       /\ f.st # "blocked"
       /\ childStdout' = f.rest
       /\ IF f.st = "fatal"
          THEN supervisor' = "fatal frame" /\ parentDecoded' = parentDecoded
          ELSE supervisor' = supervisor /\ parentDecoded' = <<f.command>>
  /\ lines' = IF FirstLine(childStdout) \in CommandTypes
              THEN lines ELSE Append(lines, FirstLine(childStdout))
  /\ UNCHANGED <<cmd, waitPc, logged, pumpData, writesLeft, childStdin,
                 parentResponse, store, supOtherLog>>

\* The inbound decoder's read fails: end of file once the worker has exited
\* and its bytes are used up, or any read once cmd.Wait has closed the pipe;
\* log.Fatal(err).
SupervisorReadError ==
  /\ supervisor = "running" /\ parentDecoded = <<>>
  /\ \/ cmd # "running" /\ ReadFrame(childStdout).st = "blocked"
     \/ waitPc # "wait"
  /\ supervisor' = "fatal read"
  /\ UNCHANGED <<cmd, waitPc, logged, lines, pumpData, writesLeft, childStdout,
                 childStdin, parentDecoded, parentResponse, store, supOtherLog>>

\* The inbound decoder is in its send on childToParentCh when the channel is
\* closed: panic, send on closed channel.
SupervisorSendClosed ==
  /\ supervisor = "running" /\ parentDecoded # <<>> /\ ChannelClosed
  /\ supervisor' = "panic send"
  /\ UNCHANGED <<cmd, waitPc, logged, lines, pumpData, writesLeft, childStdout,
                 childStdin, parentDecoded, parentResponse, store, supOtherLog>>

\* The command loop receives one Command and handles it: a Get is answered
\* and the loop goes into its send on parentToChildCh, a Put or Delete is
\* applied to the store unless the store fails, anything else is logged.
SupervisorLoop ==
  /\ supervisor = "running" /\ parentDecoded # <<>> /\ parentResponse = <<>>
  /\ ~ChannelClosed
  /\ LET command == parentDecoded[1]
     IN  /\ logged' = logged \o LogRecords(command)
         /\ CASE command.Type = cmdGet ->
                  /\ parentResponse' =
                       <<Command(cmdGet, command.Name,
                                 IF command.Name \in DOMAIN store
                                 THEN store[command.Name] ELSE <<>>)>>
                  /\ UNCHANGED <<store, errorLog>>
             [] command.Type = cmdPut ->
                  /\ \E err \in StoreErrors :
                       /\ store' = IF err = "nil" /\ command.Name \in DOMAIN store
                                   THEN [store EXCEPT ![command.Name] = command.Data]
                                   ELSE store
                       /\ errorLog' = errorLog \o ErrorRecords("Could not store certificate:", err)
                  /\ parentResponse' = parentResponse
             [] command.Type = cmdDelete ->
                  /\ \E err \in StoreErrors :
                       /\ store' = IF err = "nil" /\ command.Name \in DOMAIN store
                                   THEN [store EXCEPT ![command.Name] = <<>>]
                                   ELSE store
                       /\ errorLog' = errorLog \o ErrorRecords("Could not delete certificate:", err)
                  /\ parentResponse' = parentResponse
             [] OTHER ->
                  UNCHANGED <<parentResponse, store, errorLog>>
  /\ parentDecoded' = <<>>
  /\ UNCHANGED <<cmd, waitPc, supervisor, lines, pumpData, writesLeft,
                 childStdout, childStdin, supOther>>

\* The command loop finds childToParentCh closed: the range ends, initParent
\* returns and main calls os.Exit(0).
SupervisorLoopEnd ==
  /\ supervisor = "running" /\ parentResponse = <<>>
  /\ RangeEnds(ChannelClosed)
  /\ supervisor' = "exit 0"
  /\ UNCHANGED <<cmd, waitPc, logged, lines, pumpData, writesLeft, childStdout,
                 childStdin, parentDecoded, parentResponse, store, supOtherLog>>

\* The outbound pump receives the reply and writes its frame to the worker's
\* stdin; log.Fatal when the write fails because the worker is gone.
SupervisorPump ==
  /\ supervisor = "running" /\ parentResponse # <<>>
  /\ IF cmd = "running"
     THEN /\ childStdin' = childStdin \o Frame(parentResponse[1])
          /\ supervisor' = supervisor
     ELSE /\ childStdin' = childStdin
          /\ supervisor' = "fatal write"
  /\ parentResponse' = <<>>
  /\ UNCHANGED <<cmd, waitPc, logged, lines, pumpData, writesLeft, childStdout,
                 parentDecoded, store, supOtherLog>>

NextSupervisor ==
  \/ WorkerLog
  \/ WorkerPumpLines
  \/ WorkerPumpData
  \/ WorkerRead
  \/ WorkerExit
  \/ CmdWait
  \/ CloseChannel
  \/ SupervisorDecode
  \/ SupervisorReadError
  \/ SupervisorSendClosed
  \/ SupervisorLoop
  \/ SupervisorLoopEnd
  \/ SupervisorPump

SpecSupervisor == InitSupervisor /\ [][NextSupervisor]_vars

\* The cmd.Wait trap, the command loop and the outbound pump run.
SupervisorFairness ==
  /\ WF_vars(CmdWait) /\ WF_vars(CloseChannel)
  /\ WF_vars(SupervisorLoopEnd) /\ WF_vars(SupervisorPump)

LiveSpecSupervisor == InitSupervisor /\ [][NextSupervisor]_vars /\ SupervisorFairness

\* C15: once the worker process has exited, the supervisor process exits,
\* whether its command loop is idle or in its send of a Get reply and whether
\* or not its decoder is inside a frame.
C15_SupervisorExits == (cmd # "running") ~> (supervisor # "running")
C15_Witness ==
  /\ cmd # "running" /\ supervisor = "exit 0"
  /\ ReadFrame(childStdout).st = "blocked" /\ childStdout # <<>>

\* C16: a supervisor that has exited because the worker exited (the command
\* loop ended, a read or write of a pipe failed, or a send met the closed
\* channel) has exited with success exactly if the worker did.
C16_OutcomePropagated ==
  (cmd # "running" /\ supervisor \in {"exit 0", "fatal read", "fatal write", "panic send"})
    => (supervisor = "exit 0" <=> cmd = "exit 0")

\* The decoder's next read takes a line that is no command type.
LogLineRead ==
  /\ supervisor = "running" /\ parentDecoded = <<>>
  /\ ReadString(childStdout) > 0
  /\ FirstLine(childStdout) \notin {cmdGet, cmdPut, cmdDelete, cmdTerminate}
  /\ Len(childStdout') < Len(childStdout)

LoopTakes(type) ==
  /\ supervisor = "running" /\ parentDecoded # <<>> /\ parentDecoded' = <<>>
  /\ parentDecoded[1].Type = type

\* The store fails on the Put or Delete the loop takes: what the Command
\* asks for is not in the store before, and not after.
PutFails ==
  /\ LoopTakes(cmdPut) /\ store' = store
  /\ store[parentDecoded[1].Name] # parentDecoded[1].Data
DeleteFails ==
  /\ LoopTakes(cmdDelete) /\ store' = store
  /\ store[parentDecoded[1].Name] # <<>>

\* C26: when the store fails on a Put or a Delete, the command loop logs one
\* record for it, a store or a delete failure, sends nothing on
\* parentToChildCh and writes nothing to the worker, and is back at its
\* range over childToParentCh, the supervisor still running.
C26_StoreErrorLogged ==
  [][(PutFails \/ DeleteFails) =>
       /\ Len(errorLog') = Len(errorLog) + 1
       /\ SubSeq(errorLog', 1, Len(errorLog)) = errorLog
       /\ errorLog'[Len(errorLog')][1] =
            (IF PutFails THEN "Could not store certificate:"
                         ELSE "Could not delete certificate:")
       /\ errorLog'[Len(errorLog')][2] # "nil"
       /\ parentResponse = <<>> /\ parentResponse' = <<>>
       /\ childStdin' = childStdin
       /\ supervisor' = "running"
       /\ logged' = logged]_vars

\* The store failed on a Delete and then on a Put: the loop took the second
\* Command after the failure of the first.
C26_Witness ==
  /\ Len(errorLog) = 2 /\ supervisor = "running"
  /\ errorLog[1][1] = "Could not delete certificate:"
  /\ errorLog[2][1] = "Could not store certificate:"
  /\ store[<<"a">>] = OldData /\ childStdin = <<>>

(***************************************************************************)
(* SpecStream: an inbound decoder, the supervisor's or the worker's, on a   *)
(* byte stream of any content whose writer has closed its end.              *)
(***************************************************************************)

\* Pieces a stream is made of.
MaxPieces == 4

StreamPieces ==
  {cmdGet \o <<NL>>, <<"a", NL>>, <<"1", NL>>, <<"x", NL>>, <<"x">>}

RECURSIVE RawStreams(_)
RawStreams(n) ==
  IF n = 0 THEN {<<>>}
  ELSE RawStreams(n - 1) \cup {s \o p : s \in RawStreams(n - 1), p \in StreamPieces}

InitStream ==
  /\ dir \in {"up", "down"}
  /\ wire \in RawStreams(MaxPieces)
  /\ sent = <<>> /\ rcvd = <<>>
  /\ decoderState = "running"
  /\ ProxyParked /\ CertParked /\ RestParked

\* A read of the decoder meets the end of the stream: ReadString or
\* io.ReadFull returns an error and the decoder calls log.Fatal(err).
StreamEnd ==
  /\ decoderState = "running"
  /\ ReadFrame(wire).st = "blocked"
  /\ decoderState' = "fatal"
  /\ UNCHANGED <<dir, wire, sent, rcvd, proxyVars, certVars, restVars>>

NextStream ==
  \/ CodecDecodeParent
  \/ CodecDecodeChild
  \/ StreamEnd

SpecStream == InitStream /\ [][NextStream]_vars

\* A decimal number: an optional sign and digits.
IsDecimal(s) ==
  LET digits == IF s # <<>> /\ s[1] \in {"+", "-"} THEN Tail(s) ELSE s
  IN  digits # <<>> /\ \A i \in 1..Len(digits) : IsDigit(digits[i])

\* The stream s begins with a frame, cut into its three lines and the rest.
FrameHead(s) ==
  LET e1 == ReadString(s)
      s1 == Drop(s, e1)
      e2 == ReadString(s1)
      s2 == Drop(s1, e2)
      e3 == ReadString(s2)
  IN  [isFrame |-> e1 > 0 /\ TrimSpace(SubSeq(s, 1, e1)) \in {cmdGet, cmdPut, cmdDelete, cmdTerminate},
       hasName |-> e2 > 0,
       hasLength |-> e2 > 0 /\ e3 > 0,
       length |-> TrimSpace(SubSeq(s2, 1, e3)),
       payload |-> Drop(s2, e3)]

\* The frame at the head of s has a payloadLength line that is no decimal number.
BadLength(s) ==
  LET h == FrameHead(s)
  IN  h.isFrame /\ h.hasLength /\ ~IsDecimal(h.length)

\* s ends inside the frame at its head.
EndsInside(s) ==
  LET h == FrameHead(s)
  IN  /\ h.isFrame
      /\ \/ ~h.hasLength
         \/ /\ IsDecimal(h.length) /\ h.length[1] # "-"
            /\ Len(h.payload) <
                 DigitsValue(IF h.length[1] = "+" THEN Tail(h.length) ELSE h.length)

\* C19: a decoder whose stream begins with a frame that has a payloadLength
\* line that is no decimal number, or that ends inside the frame, ends its
\* process without producing a Command, and after that it reads and
\* produces nothing more.
C19_MalformedFrameFatal ==
  [][ /\ (decoderState = "running" /\ (BadLength(wire) \/ EndsInside(wire)))
           => (decoderState' = "fatal" /\ rcvd' = rcvd)
      /\ decoderState = "fatal"
           => (decoderState' = "fatal" /\ rcvd' = rcvd /\ wire' = wire) ]_vars
C19_Witness ==
  /\ dir = "down" /\ decoderState = "fatal" /\ BadLength(wire)
  /\ Len(wire) > 8 /\ rcvd = <<>>

(***************************************************************************)
(* SpecConfig: readConfig over a config.yml that is missing, is not YAML,   *)
(* or holds entries of which some may not fit their field's type.           *)
(***************************************************************************)

\* Durations are counted in half hours.
Hour == 2
\* config's initial CertificateExpiryRefreshThreshold, 48 hours.
DefaultThreshold == 96
\* The largest threshold a config.yml holds.
MaxFileThreshold == 3

DefaultConfig ==
  [CertificateExpiryRefreshThreshold |-> DefaultThreshold,
   HttpAddr |-> ":http", LogRequests |-> TRUE]

\* One entry of config.yml: absent, a value of the field's type, or a value
\* that cannot be decoded into the field.
NoEntry(zero) == [state |-> "absent", val |-> zero]
Entries(values, zero) ==
  {NoEntry(zero), [state |-> "invalid", val |-> zero]} \cup
  {[state |-> "valid", val |-> v] : v \in values}

ConfigFiles ==
  {[kind |-> k, threshold |-> NoEntry(0), httpAddr |-> NoEntry(""),
    logRequests |-> NoEntry(FALSE)] : k \in {"missing", "syntax"}}
  \cup
  {[kind |-> "entries", threshold |-> t, httpAddr |-> a, logRequests |-> l] :
     t \in Entries((0 - 1)..MaxFileThreshold, 0),
     a \in Entries({":8080", "bad"}, ""),
     l \in Entries({FALSE}, FALSE)}

\* yaml.Unmarshal(data, &config): every entry that fits its field is stored,
\* also when another entry does not fit; nil data stores nothing.
Decoded(entry, old) == IF entry.state = "valid" THEN entry.val ELSE old
Unmarshal(data, c) ==
  IF data.kind # "entries" THEN c
  ELSE [CertificateExpiryRefreshThreshold |->
          Decoded(data.threshold, c.CertificateExpiryRefreshThreshold),
        HttpAddr |-> Decoded(data.httpAddr, c.HttpAddr),
        LogRequests |-> Decoded(data.logRequests, c.LogRequests)]
UnmarshalError(data) ==
  \/ data.kind = "syntax"
  \/ /\ data.kind = "entries"
     /\ "invalid" \in {data.threshold.state, data.httpAddr.state,
                        data.logRequests.state}

\* net.ResolveTCPAddr and the replacement of an invalid address.
ResolveAddr(addr) == IF addr \in {":http", "bad"} THEN ":80" ELSE addr

\* sanityChecks up to the directory checks.
sanityChecks(c) ==
  [c EXCEPT !.HttpAddr = ResolveAddr(@),
            !.CertificateExpiryRefreshThreshold = IF @ < Hour THEN Hour ELSE @]

\* The data readConfig has in hand when ReadFile failed: its own data
\* variable, nil, as the marshalled defaults are a variable of the inner block.
NilData ==
  [kind |-> "missing", threshold |-> NoEntry(0), httpAddr |-> NoEntry(""),
   logRequests |-> NoEntry(FALSE)]

configOther == <<codecVars, proxyVars, certVars, handshakeVars, serverVars, superVars,
                 domainVars, pumpVars>>

InitConfig ==
  /\ config = DefaultConfig
  /\ configFile \in ConfigFiles
  /\ configPc = "read"
  /\ CodecParked /\ ProxyParked /\ CertParked /\ HandshakesParked
  /\ ServerParked /\ SupervisorParked /\ DomainsParked /\ PumpParked

\* readConfig: ioutil.ReadFile("config.yml")
ReadFile ==
  /\ configPc = "read"
  /\ configPc' = IF configFile.kind = "missing" THEN "create" ELSE "unmarshal"
  /\ UNCHANGED <<config, configFile, configOther>>

\* readConfig: the file does not exist; yaml.Marshal(config) and
\* ioutil.WriteFile, returning when either fails.
CreateFile ==
  /\ configPc = "create"
  /\ \E written \in BOOLEAN :
       IF written
       THEN /\ configFile' =
                 [kind |-> "entries",
                  threshold |-> [state |-> "valid",
                                 val |-> config.CertificateExpiryRefreshThreshold],
                  httpAddr |-> [state |-> "valid", val |-> config.HttpAddr],
                  logRequests |-> [state |-> "valid", val |-> config.LogRequests]]
            /\ configPc' = "unmarshalNil"
       ELSE configFile' = configFile /\ configPc' = "done"
  /\ UNCHANGED <<config, configOther>>

\* readConfig: yaml.Unmarshal(data, &config), returning on its error.
UnmarshalStep ==
  /\ configPc \in {"unmarshal", "unmarshalNil"}
  /\ \E data \in {IF configPc = "unmarshalNil" THEN NilData ELSE configFile} :
       /\ config' = Unmarshal(data, config)
       /\ configPc' = IF UnmarshalError(data) THEN "done" ELSE "sanity"
  /\ UNCHANGED <<configFile, configOther>>

\* readConfig: sanityChecks(), which ends the process with log.Fatal when a
\* directory cannot be made or no domain is configured.
SanityChecksStep ==
  /\ configPc = "sanity"
  /\ config' = sanityChecks(config)
  /\ \E ok \in BOOLEAN : configPc' = IF ok THEN "done" ELSE "fatal"
  /\ UNCHANGED <<configFile, configOther>>

NextConfig ==
  \/ ReadFile
  \/ CreateFile
  \/ UnmarshalStep
  \/ SanityChecksStep

SpecConfig == InitConfig /\ [][NextConfig]_vars

\* C21: when readConfig has returned, whether config.yml was missing and
\* created, present and valid, or present with invalid entries,
\* config.CertificateExpiryRefreshThreshold is at least one hour.
C21_ThresholdAtLeastHour ==
  configPc = "done" => config.CertificateExpiryRefreshThreshold >= Hour

(***************************************************************************)
(* SpecDomains: the manager's host policy and initCertificates' white list  *)
(* over any configured domain lists.                                        *)
(***************************************************************************)

\* Entries of one configured domain list.
MaxDomains == 2

DomainNames == {"le.test", "Self.test", "self.test", "bad name"}

RECURSIVE DomainLists(_)
DomainLists(n) ==
  IF n = 0 THEN {<<>>}
  ELSE DomainLists(n - 1) \cup
         {Append(l, d) : l \in DomainLists(n - 1), d \in DomainNames}

\* initCertificates: append(config.SelfSignedDomains, config.LetsEncryptDomains...)
AppendNothing(selfSigned, letsEncrypt) == selfSigned
AppendDomains(selfSigned, letsEncrypt) == selfSigned \o letsEncrypt

domainsOther == <<codecVars, proxyVars, certVars, handshakeVars, serverVars, superVars,
                  configFile, pumpVars>>

InitDomains ==
  /\ config \in {[LetsEncryptDomains |-> le, SelfSignedDomains |-> ss] :
                   le \in DomainLists(MaxDomains), ss \in DomainLists(MaxDomains)}
  /\ configPc = "manager"
  /\ configFile = <<>>
  /\ whiteList = {} /\ hostPolicy = {}
  /\ CodecParked /\ ProxyParked /\ CertParked /\ HandshakesParked
  /\ ServerParked /\ SupervisorParked /\ PumpParked

\* initChild: the autocert.Manager with its HostPolicy.
NewManager ==
  /\ configPc = "manager"
  /\ hostPolicy' = WhiteListOf(config.LetsEncryptDomains)
  /\ configPc' = "append"
  /\ UNCHANGED <<config, whiteList, domainsOther>>

\* initCertificates: the ACME domains are added to config.SelfSignedDomains.
InitCertificatesAppend ==
  /\ configPc = "append"
  /\ config' = [config EXCEPT !.SelfSignedDomains =
                                AppendDomains(@, config.LetsEncryptDomains)]
  /\ configPc' = "whiteList"
  /\ UNCHANGED <<whiteList, hostPolicy, domainsOther>>

\* initCertificates: the white list is made from config.SelfSignedDomains.
InitCertificatesWhiteList ==
  /\ configPc = "whiteList"
  /\ whiteList' = WhiteListOf(config.SelfSignedDomains)
  /\ configPc' = "done"
  /\ UNCHANGED <<config, hostPolicy, domainsOther>>

NextDomains ==
  \/ NewManager
  \/ InitCertificatesAppend
  \/ InitCertificatesWhiteList

SpecDomains == InitDomains /\ [][NextDomains]_vars

C23_SelfSignedCertificate ==
  \A serverName \in ServerNames :
    (ToASCII(serverName).ok /\ ToASCII(serverName).name \in allowedDomainsSelfSignedWhiteList)
      => LET r == getTLSCert(serverName, TRUE)
         IN  /\ r.err = NoError /\ r.cert # NoCert
             /\ r.CommonName = ToASCII(serverName).name
             /\ r.cert.NotAfter = now + RefreshThreshold + FourteenDays
C23_Witness ==
  /\ hello = "self.test" /\ "keygen" \in effects /\ ret.err = NoError
  /\ now > 0 /\ ret.cert.issuer = "self"
  /\ ret.cert.NotAfter = now + RefreshThreshold + FourteenDays
  /\ getTLSCert(hello, TRUE).CommonName = "self.test"

(***************************************************************************)
(* SpecPump: one outbound pump, the worker's (dir = "up") or the           *)
(* supervisor's (dir = "down"), in its select between the channel and the  *)
(* ten second timer, the goroutines that send on the channel, and the      *)
(* peer's inbound decoder.                                                 *)
(***************************************************************************)

\* Idle timeouts in one behaviour.
MaxTimeouts == 2

\* The Commands sent on the pump's channel.
PumpCommands ==
  {Command(t, <<"a">>, data) : t \in CommandTypes, data \in {<<>>, TokenPayload}}

\* What the pump logs on a timeout, and the line the worker's logger writes
\* for it to stdout (the text after the logger's prefix).
TimeoutRecord(d) ==
  IF d = "up" THEN "Timeout waiting for command to parent"
              ELSE "Timeout waiting for command to child"
TimeoutLine == <<"T">>

\* A timeout that takes the Command offered on the channel with it.
AfterTimeoutDropped(offered) == <<>>

\* select: the case of the timer receives nothing from the channel.
AfterTimeout(offered) == offered

pumpOther == <<proxyVars, certVars, handshakeVars, serverVars, superVars,
               configVars, domainVars>>

InitPump ==
  /\ dir \in {"up", "down"}
  /\ wire = <<>> /\ sent = <<>> /\ rcvd = <<>>
  /\ decoderState = "running"
  /\ pending = <<>> /\ pumpLog = <<>>
  /\ ProxyParked /\ CertParked /\ HandshakesParked
  /\ ServerParked /\ SupervisorParked /\ ConfigParked /\ DomainsParked

\* A goroutine sends a Command on the pump's unbuffered channel and blocks
\* until the pump receives it.
PumpSend ==
  /\ pending = <<>> /\ Len(sent) < MaxFrames
  /\ \E command \in PumpCommands :
       /\ pending' = <<command>>
       /\ sent' = Append(sent, command)
  /\ UNCHANGED <<dir, wire, rcvd, decoderState, pumpLog, pumpOther>>

\* case <-time.After(10 * time.Second): log.Println(...).  The worker's
\* logger writes the line to stdout as well; the loop goes on.
PumpTimeout ==
  /\ Len(pumpLog) < MaxTimeouts
  /\ pumpLog' = Append(pumpLog, TimeoutRecord(dir))
  /\ wire' = IF dir = "up" THEN wire \o TimeoutLine \o <<NL>> ELSE wire
  /\ pending' = AfterTimeout(pending)
  /\ UNCHANGED <<dir, sent, rcvd, decoderState, pumpOther>>

\* case command, ok := <-channel: the three lines, the Flush and the data.
PumpWrite ==
  /\ pending # <<>>
  /\ wire' = wire \o Frame(pending[1])
  /\ pending' = <<>>
  /\ UNCHANGED <<dir, sent, rcvd, decoderState, pumpLog, pumpOther>>

NextPump ==
  \/ PumpSend
  \/ PumpTimeout
  \/ PumpWrite
  \/ CodecDecodeParent
  \/ CodecDecodeChild

SpecPump == InitPump /\ [][NextPump]_vars

IsCommand(command) == command.Type \in CommandTypes

\* The Commands the peer's decoder has built, without the lines of the log.
Transmitted == SelectSeq(rcvd, IsCommand)

\* C30: with any number of idle timeouts fired, before, between and while
\* Commands are offered on the channel, the pump has logged one record per
\* timeout and nothing else has happened: the Commands the peer's decoder
\* builds are the Commands sent on the channel, in order, each once; a
\* Command offered is still on offer until the pump writes it; once the pipe
\* is read empty every Command sent has arrived; the decoder never fails.
C30_TimeoutOnlyLogged ==
  /\ decoderState = "running"
  /\ \A i \in 1..Len(pumpLog) : pumpLog[i] = TimeoutRecord(dir)
  /\ Len(Transmitted) <= Len(sent)
  /\ Transmitted = SubSeq(sent, 1, Len(Transmitted))
  /\ pending # <<>> => pending[1] = sent[Len(sent)] /\ Len(Transmitted) < Len(sent)
  /\ (wire = <<>> /\ pending = <<>>) => Transmitted = sent
  /\ \A i \in 1..Len(rcvd) :
       ~IsCommand(rcvd[i]) => dir = "up" /\ rcvd[i] = Command(TimeoutLine, <<>>, <<>>)

\* Two timeouts fired, one before the first Command and one before the
\* second, and both Commands have arrived whole.
C30_Witness ==
  /\ dir = "up" /\ Len(pumpLog) = MaxTimeouts /\ wire = <<>> /\ pending = <<>>
  /\ Len(rcvd) = 4 /\ ~IsCommand(rcvd[1]) /\ ~IsCommand(rcvd[3])
  /\ rcvd[2] = sent[1] /\ rcvd[4] = sent[2]
  /\ sent[1].Data = TokenPayload

(***************************************************************************)
(* SpecIssue: handshakes inside getCertificate (the steps of               *)
(* SpecHandshakes) next to the DirCache calls the autocert Manager makes   *)
(* and the supervisor that serves them (the steps of Spec).                *)
(***************************************************************************)

\* DirCache calls in one behaviour of SpecIssue; each goroutine runs one
\* handshake.
IssueOps == 1

InitIssue ==
  /\ certCacheBytes = [n \in Names |-> <<>>]
  /\ pc = [c \in Callers |-> "idle"]
  /\ call = [c \in Callers |-> NoCall]
  /\ result = [c \in Callers |-> NoResult]
  /\ childStdout = <<>> /\ childStdin = <<>>
  /\ parentDecoded = <<>> /\ parentResponse = <<>> /\ childDecoded = <<>>
  /\ store = [n \in Names |-> OldData]
  /\ opsLeft = IssueOps
  /\ getQueue = <<>>
  /\ answer = [c \in Callers |-> Unknown]
  /\ lastPut = [n \in Names |-> Unknown]
  /\ certCache \in
       {[k \in CertNames |-> IF k = "self.test" THEN e ELSE NoCert] :
          e \in {NoCert, Certificate(1, RefreshThreshold - 1, TRUE, "self")}}
  /\ now = 0 /\ serial = 2 /\ initIndex = Len(AllSelfSignedDomains) + 1
  /\ calls = MaxHandshakes - Cardinality(Goroutines)
  /\ hello = Nil /\ duration = <<>> /\ effects = {}
  /\ ret = [cert |-> NoCert, err |-> NoError]
  /\ hs = [g \in Goroutines |-> Idle]
  /\ hret = [g \in Goroutines |-> NoReturn]
  /\ mapWriters = {} /\ fatal = FALSE
  /\ CodecParked /\ LaterParked

NextIssue == NextHandshakes \/ Next

SpecIssue == InitIssue /\ [][NextIssue]_vars

\* C31: the steps that issue a self signed certificate (getTLSCert) and put
\* it into certCache send no Command, start no DirCache call, and leave the
\* worker's byte cache and the supervisor's store as they are.
C31_SelfSignedNotPersisted ==
  [][\A g \in Goroutines :
       (GetCertificateIssue(g) \/ GetCertificateStore(g))
         => UNCHANGED <<childStdout, store, certCacheBytes, pc, call, opsLeft,
                        parentDecoded>>]_vars

\* A handshake has issued and cached a self signed certificate; no DirCache
\* call was made, nothing was written to the supervisor, and the store holds
\* what it held.
C31_Witness ==
  \E g \in Goroutines :
    /\ hret[g].state = "returned" /\ hret[g].cert.issuer = "self"
    /\ hret[g].cert.id > 2 /\ certCache["self.test"] = hret[g].cert
    /\ opsLeft = IssueOps /\ childStdout = <<>>
    /\ store = [n \in Names |-> OldData]

\* C32: every key under which certCache holds a certificate is the converted
\* (lower case, ASCII) form of a white listed domain, during and after
\* initCertificates and after any getCertificate calls.
C32_KeysNormalized ==
  \A k \in DOMAIN certCache :
    certCache[k] # NoCert =>
      /\ ToASCII(k).ok /\ ToASCII(k).name = k
      /\ k \in allowedDomainsSelfSignedWhiteList

\* The worker's stdout ends with these bytes.
EndsWith(stream, bytes) ==
  /\ Len(stream) >= Len(bytes)
  /\ SubSeq(stream, Len(stream) - Len(bytes) + 1, Len(stream)) = bytes

\* C33: between the three lines of a frame and its payload nothing else is
\* written to the worker's stdout, and every Command of the four types the
\* supervisor's decoder builds is a Command the worker's pump wrote, payload
\* included.
C33_FrameContiguous ==
  /\ pumpData # <<>> =>
       \E c \in WorkerCommands :
         c.Data = pumpData[1] /\ EndsWith(childStdout, FrameLines(c))
  /\ (parentDecoded # <<>> /\ parentDecoded[1].Type \in CommandTypes)
       => parentDecoded[1] \in WorkerCommands

(***************************************************************************)
(* FairSpec: Spec with every goroutine of the worker and of the supervisor *)
(* scheduled, and one DirCache call less, to keep the graph small.         *)
(***************************************************************************)

InitFair ==
  /\ certCacheBytes = [n \in Names |-> <<>>]
  /\ pc = [c \in Callers |-> "idle"]
  /\ call = [c \in Callers |-> NoCall]
  /\ result = [c \in Callers |-> NoResult]
  /\ childStdout = <<>> /\ childStdin = <<>>
  /\ parentDecoded = <<>> /\ parentResponse = <<>> /\ childDecoded = <<>>
  /\ store \in [Names -> {<<>>, OldData}]
  /\ opsLeft = MaxOps - 1
  /\ getQueue = <<>>
  /\ answer = [c \in Callers |-> Unknown]
  /\ lastPut = [n \in Names |-> Unknown]
  /\ CodecParked /\ CertParked /\ RestParked

\* Go schedules every goroutine that can run, in both processes.
AllFairness ==
  /\ WorkerFairness
  /\ WF_vars(ParentDecode)
  /\ WF_vars(ParentLoop)
  /\ WF_vars(ParentPump)

FairSpec == InitFair /\ [][Next]_vars /\ AllFairness

\* Another Get, of another name, is in flight next to the Get of c.
OtherGetInFlight(c) ==
  \E d \in Callers \ {c} :
    /\ call[d].op = "Get" /\ pc[d] \in {"send", "wait"}
    /\ call[d].name # call[c].name

\* C34: with every goroutine scheduled, a Get that waits for its reply while
\* a Get of another name is in flight returns.
C34_EachGetReturns ==
  \A c \in Callers :
    (pc[c] = "wait" /\ call[c].op = "Get" /\ OtherGetInFlight(c))
      ~> (pc[c] = "idle")

\* C35: the supervisor's decoder is never in a send on childToParentCh when
\* the channel is closed, and so never panics with a send on a closed
\* channel.
C35_NoSendOnClosed ==
  /\ ~(ChannelClosed /\ parentDecoded # <<>> /\ supervisor = "running")
  /\ supervisor # "panic send"

\* C36: once a Terminate Command has started the shutdown of both servers,
\* both of them created and serving, a listener goroutine whose Serve returns
\* signals wgServerClosed; the worker does not end by the log.Fatal after
\* Serve.
C36_ServeReturnsNormally ==
  (\A s \in Servers : server[s] = "shutdown" /\ shut[s] \in {"polling", "done"})
    => worker # "fatal serve"

\* C37: whenever a Terminate Command is decoded, before or after runServer
\* has created the servers, no Shutdown is called on a server that does not
\* exist and the worker does not panic.
C37_TerminateAnyTime ==
  /\ \A s \in Servers : shut[s] # "nilServer"
  /\ worker # "panic"


\* C38: while a Put of non-empty data that has returned is the last Put or
\* Delete of its name, certCacheBytes holds that data under the name, and a
\* Get of the name started in that time has returned it without error and
\* without a send on childToParentCh.
C38_ReadYourWrites ==
  /\ \A n \in Names :
       lastPut[n].known => certCacheBytes[n] = lastPut[n].data
  /\ \A c \in Callers :
       (call[c].op = "Get" /\ call[c].known)
         => /\ pc[c] = "idle"
            /\ result[c] = [data |-> call[c].expect, err |-> "nil"]


\* C39: a Get that was started after a Delete of its name had returned, with
\* no Put or Delete of the name since, returns autocert.ErrCacheMiss.
C39_DeleteThenGet ==
  \A c \in Callers :
    (pc[c] = "idle" /\ call[c].op = "Get" /\ call[c].deleted)
      => result[c] = [data |-> <<>>, err |-> ErrCacheMiss]


\* No Command or response is under way: no caller is inside DirCache, both
\* pipes are empty and neither decoder holds a Command.
Quiescent ==
  /\ \A c \in Callers : pc[c] = "idle"
  /\ childStdout = <<>> /\ childStdin = <<>>
  /\ parentDecoded = <<>> /\ parentResponse = <<>> /\ childDecoded = <<>>

\* C40: when no Command is under way, every name that certCacheBytes holds
\* data for has the same data in the supervisor's store.
C40_CacheMatchesStore ==
  Quiescent =>
    \A n \in Names : certCacheBytes[n] # <<>> => certCacheBytes[n] = store[n]

====
